---- MODULE Spec2Model ----
(***************************************************************************)
(* TaskFlow: the REST API of routes/auth.js, routes/tasks.js and the      *)
(* models User and Task, as a state machine over the document store.      *)
(*                                                                         *)
(* JavaScript strings are sequences of one-character strings, so that     *)
(* trim, toLowerCase, startsWith and the regular expressions are computed *)
(* on the characters.  An optional value (undefined / absent) is the      *)
(* empty set, a present value v is {v}.  Time is counted in days.  The    *)
(* value of the envelope's error field is written as its JSON text.       *)
(***************************************************************************)
EXTENDS Integers, Sequences, FiniteSets, TLC

VARIABLES
  users,     \* the users collection: a set of User documents
  tasks,     \* the tasks collection: a set of Task documents
  nUsers,    \* User documents created so far (ObjectIds are never reused)
  nTasks,    \* Task documents created so far
  now,       \* the server clock (new Date()), in days
  held,      \* tokens that were issued and are still held by some client
  loggedOut, \* tokens that a client has sent with a logout request
  req,       \* the request handled by the last step (with req.user, req.route)
  res,       \* the response sent by the last step
  pending,   \* the requests whose handler is between two store operations
  client     \* the state of the browser application (public/js/app.js)

vars ==
  <<users, tasks, nUsers, nTasks, now, held, loggedOut, req, res, pending, client>>

---------------------------------------------------------------------------
(* Bounds of the model *)

MaxUsers == 2
MaxTasks == 2
MaxTime == 8
MaxHeld == 2

---------------------------------------------------------------------------
(* Strings *)

LowerLetters ==
  {"a","b","c","d","e","f","g","h","i","j","k","l","m",
   "n","o","p","q","r","s","t","u","v","w","x","y","z"}

UpperLetters ==
  {"A","B","C","D","E","F","G","H","I","J","K","L","M",
   "N","O","P","Q","R","S","T","U","V","W","X","Y","Z"}

Digits == {"0","1","2","3","4","5","6","7","8","9"}

\* \w of a JavaScript regular expression
WordChars == LowerLetters \cup UpperLetters \cup Digits \cup {"_"}

\* [0-9a-fA-F]
HexChars ==
  Digits \cup {"a","b","c","d","e","f"} \cup {"A","B","C","D","E","F"}

UpperSeq ==
  <<"A","B","C","D","E","F","G","H","I","J","K","L","M",
    "N","O","P","Q","R","S","T","U","V","W","X","Y","Z">>

LowerSeq ==
  <<"a","b","c","d","e","f","g","h","i","j","k","l","m",
    "n","o","p","q","r","s","t","u","v","w","x","y","z">>

LowerChar(c) ==
  IF c \in UpperLetters
    THEN LowerSeq[CHOOSE i \in DOMAIN UpperSeq : UpperSeq[i] = c]
    ELSE c

\* String.prototype.toLowerCase
ToLowerCase(s) == [i \in 1..Len(s) |-> LowerChar(s[i])]

SetMin(S) == CHOOSE m \in S : \A k \in S : m <= k
SetMax(S) == CHOOSE m \in S : \A k \in S : m >= k

\* String.prototype.trim
Trim(s) ==
  LET ink == {i \in 1..Len(s) : s[i] # " "}
  IN  IF ink = {} THEN <<>> ELSE SubSeq(s, SetMin(ink), SetMax(ink))

\* String.prototype.startsWith
StartsWith(s, p) == Len(s) >= Len(p) /\ SubSeq(s, 1, Len(p)) = p

\* a string is falsy exactly when it is empty; an absent value is falsy
Truthy(opt) == opt # {} /\ \A v \in opt : v # <<>>

---------------------------------------------------------------------------
(* ObjectIds *)

DigitValue(c) ==
  CASE c = "0" -> 0 [] c = "1" -> 1 [] c = "2" -> 2 [] c = "3" -> 3
    [] c = "4" -> 4 [] c = "5" -> 5 [] c = "6" -> 6 [] c = "7" -> 7
    [] c = "8" -> 8 [] c = "9" -> 9

HexDigit(k) ==
  CASE k = 0 -> "0" [] k = 1 -> "1" [] k = 2 -> "2" [] k = 3 -> "3"
    [] k = 4 -> "4" [] k = 5 -> "5" [] k = 6 -> "6" [] k = 7 -> "7"
    [] k = 8 -> "8" [] k = 9 -> "9" [] k = 10 -> "a" [] k = 11 -> "b"
    [] k = 12 -> "c" [] k = 13 -> "d" [] k = 14 -> "e" [] OTHER -> "f"

ObjectIdLen == 24

\* the documents' _id values are 1, 2, ... in order of creation, over both
\* collections; OidStr is the 24 character hexadecimal form of such an id
OidStr(k) == [i \in 1..ObjectIdLen |-> IF i < ObjectIdLen THEN "0" ELSE HexDigit(k)]

\* a test of the characters that does not test the length
IsHexString(s) == \A i \in 1..Len(s) : s[i] \in HexChars

\* /^[0-9a-fA-F]{24}$/
IsObjectIdString(s) == Len(s) = ObjectIdLen /\ \A i \in 1..Len(s) : s[i] \in HexChars

HexValue(c) ==
  CASE c \in Digits -> DigitValue(c)
    [] c \in {"a", "A"} -> 10 [] c \in {"b", "B"} -> 11 [] c \in {"c", "C"} -> 12
    [] c \in {"d", "D"} -> 13 [] c \in {"e", "E"} -> 14 [] c \in {"f", "F"} -> 15

RECURSIVE HexNumber(_, _, _)
HexNumber(s, i, acc) ==
  IF i > Len(s) THEN acc ELSE HexNumber(s, i + 1, 16 * acc + HexValue(s[i]))

\* the cast of a string to an ObjectId by the store driver: the id that the
\* 24 hexadecimal digits denote, and no id for any other string
CastObjectId(s) == IF IsObjectIdString(s) THEN {HexNumber(s, 1, 0)} ELSE {}

NextObjectId == nUsers + nTasks + 1

---------------------------------------------------------------------------
(* Token service *)

JWT_SECRET == "your-secret-key"

\* expiresIn: '7d'
TokenTTL == 7

\* the HMAC of the claims under a key, idealised as an injective pairing
Mac(claims, key) == <<key, claims>>

\* a signature whose token expires a day late
JwtSignLate(payload, key, t) ==
  LET claims == [id |-> payload.id, email |-> payload.email,
                 iat |-> t, exp |-> t + TokenTTL + 1]
  IN  [kind |-> "jwt", claims |-> claims, sig |-> Mac(claims, key)]

\* jwt.sign({id, email}, secret, {expiresIn: '7d'}) at time t
JwtSign(payload, key, t) ==
  LET claims == [id |-> payload.id, email |-> payload.email,
                 iat |-> t, exp |-> t + TokenTTL]
  IN  [kind |-> "jwt", claims |-> claims, sig |-> Mac(claims, key)]

\* generateToken(user)
generateToken(user) ==
  JwtSign([id |-> OidStr(user._id), email |-> user.email], JWT_SECRET, now)

\* a verification that does not look at the expiry
JwtVerifyNoExpiry(tok, key, t) ==
  IF tok.kind # "jwt" \/ tok.sig # Mac(tok.claims, key)
    THEN [ok |-> FALSE, name |-> "JsonWebTokenError"]
    ELSE [ok |-> TRUE, decoded |-> tok.claims]

\* jwt.verify(token, secret) at time t: the structure and the signature are
\* checked first, the expiry after them
JwtVerify(tok, key, t) ==
  IF tok.kind # "jwt"
    THEN [ok |-> FALSE, name |-> "JsonWebTokenError"]
  ELSE IF tok.sig # Mac(tok.claims, key)
    THEN [ok |-> FALSE, name |-> "JsonWebTokenError"]
  ELSE IF t >= tok.claims.exp
    THEN [ok |-> FALSE, name |-> "TokenExpiredError"]
  ELSE [ok |-> TRUE, decoded |-> tok.claims]

---------------------------------------------------------------------------
(* Responses: the envelope {error, message, data?} with its status *)

\* the messages of the responses, in English for the Korean texts of the
\* source; a message is the sequence of the texts that the code joins with ', '
M ==
  [ AuthRequired |-> <<"an authentication token is required">>,
    InvalidToken |-> <<"invalid token">>,
    ExpiredToken |-> <<"expired token">>,
    AuthFailed |-> <<"error during authentication">>,
    TitleRequired |-> <<"task title is required">>,
    PriorityRange |-> <<"priority must be a number from 1 to 5">>,
    Created |-> <<"task created">>,
    InvalidId |-> <<"invalid task id">>,
    TaskNotFound |-> <<"task not found">>,
    Fetched |-> <<"task fetched">>,
    Updated |-> <<"task updated">>,
    Deleted |-> <<"task deleted">>,
    CompletedDeleted |-> <<"completed tasks deleted">>,
    StatsOk |-> <<"task statistics fetched">>,
    ListOk |-> <<"task list fetched">>,
    ListFailed |-> <<"error while listing tasks">>,
    NoRoute |-> <<"the requested path was not found">>,
    RegisterRequired |-> <<"name, email and password are required">>,
    InvalidEmail |-> <<"enter a valid email address">>,
    PasswordShort |-> <<"password must be at least 6 characters">>,
    DuplicateEmail |-> <<"this email address is already registered">>,
    Registered |-> <<"registration completed">>,
    ServerError |-> <<"internal server error">>,
    LoginRequired |-> <<"email and password are required">>,
    BadCredentials |-> <<"email or password is not correct">>,
    DeactivatedLogin |-> <<"deactivated account, contact the administrator">>,
    LoggedIn |-> <<"logged in">>,
    LoggedOut |-> <<"logged out">>,
    InvalidUser |-> <<"invalid user">>,
    Deactivated |-> <<"deactivated account">>,
    MeOk |-> <<"user fetched">>,
    Welcome |-> <<"welcome to the TaskFlow API">>,
    Healthy |-> <<"the server is running">> ]

Fail(status, message) ==
  [status |-> status, error |-> "true", message |-> message]

Ok(status, message, data) ==
  [status |-> status, error |-> "false", message |-> message, data |-> data]

\* a step that is no request leaves no request and no response behind
NoResponse == [status |-> 0]
NoRequest ==
  [base |-> "none", method |-> "none", path |-> <<>>, header |-> {},
   body |-> [k \in {} |-> {}], query |-> [k \in {} |-> {}], user |-> {},
   route |-> "none"]

\* the browser application when its page is loaded with an empty localStorage:
\* the globals currentUser, authToken and tasks, the entries of localStorage,
\* the screen shown and the handler that is running
NoClient ==
  [authToken |-> {}, currentUser |-> {}, tasks |-> <<>>,
   storage |-> [k \in {} |-> {}], screen |-> "login", pc |-> "idle"]

---------------------------------------------------------------------------
(* Authorization middleware *)

BearerPrefix == <<"B","e","a","r","e","r"," ">>

\* authenticateToken: a request header is absent ({}) or {[scheme, cred]},
\* the header text being the scheme followed by the credential
authenticateToken(header) ==
  IF header = {} \/ \E h \in header : ~StartsWith(h.scheme, BearerPrefix)
    THEN [next |-> FALSE, res |-> Fail(401, M.AuthRequired)]
  ELSE
    LET h == CHOOSE h \in header : TRUE
        v == JwtVerify(h.cred, JWT_SECRET, now)
    IN  IF v.ok
          THEN [next |-> TRUE,
                user |-> [id |-> v.decoded.id, email |-> v.decoded.email]]
        ELSE IF v.name = "JsonWebTokenError"
          THEN [next |-> FALSE, res |-> Fail(401, M.InvalidToken)]
        ELSE IF v.name = "TokenExpiredError"
          THEN [next |-> FALSE, res |-> Fail(401, M.ExpiredToken)]
        ELSE [next |-> FALSE, res |-> Fail(500, M.AuthFailed)]

---------------------------------------------------------------------------
(* Task model (models/Task.js) *)

TitleMaxLen == 100
DescriptionMaxLen == 500
TagMaxLen == 20
PriorityMin == 1
PriorityMax == 5
DefaultPriority == 3

\* A priority is a JavaScript number and need not be whole: the model counts
\* it in halves, Num(n) being the number n and Num(n) + 1 the number n + 0.5.
Num(n) == 2 * n

\* enum: work, study, personal, health, shopping, other
Categories == {"work", "study", "personal", "health", "shopping", "other"}
DefaultCategory == "personal"

\* the messages of the validators of the schemas
V ==
  [ UserIdRequired |-> "user id is required",
    TitleRequired |-> "task title is required",
    TitleTooLong |-> "title must be at most 100 characters",
    DescriptionTooLong |-> "description must be at most 500 characters",
    CategoryEnum |-> "category is not a valid enum value",
    PriorityMin |-> "priority is less than minimum allowed value (1)",
    PriorityMax |-> "priority is more than maximum allowed value (5)",
    DueDatePast |-> "due date must be after the current date",
    TagTooLong |-> "tag must be at most 20 characters",
    EmailRequired |-> "email is required",
    EmailMatch |-> "enter a valid email address",
    PasswordRequired |-> "password is required",
    PasswordShort |-> "password must be at least 6 characters",
    NameRequired |-> "name is required",
    NameTooLong |-> "name must be at most 50 characters" ]

\* the value of a request field as an optional: {} when the key is absent
Field(obj, f) == IF f \in DOMAIN obj THEN {obj[f]} ELSE {}

\* A due date is an instant counted in half days, so that the start of a day,
\* which is what a date without a time of day parses to (new Date("2024-05-01")
\* is midnight), is told from the time of day of the clock: HalfDays(t) is the
\* instant new Date() gives on day t, StartOfDay(t) the midnight before it.
HalfDays(t) == 2 * t
StartOfDay(t) == 2 * t - 1

\* the messages of the validators that reject the fields present in f, in
\* schema order; a field is validated when it is in f
ValidateTaskFields(f) ==
  LET one(cond, m) == IF cond THEN <<m>> ELSE <<>>
      has(k) == k \in DOMAIN f
  IN  one(has("userId") /\ f.userId = {}, V.UserIdRequired)
      \o one(has("title") /\ f.title = <<>>, V.TitleRequired)
      \o one(has("title") /\ Len(f.title) > TitleMaxLen, V.TitleTooLong)
      \o one(has("description") /\ Len(f.description) > DescriptionMaxLen,
             V.DescriptionTooLong)
      \o one(has("category") /\ f.category \notin Categories, V.CategoryEnum)
      \o one(has("priority") /\ f.priority < Num(PriorityMin), V.PriorityMin)
      \o one(has("priority") /\ f.priority > Num(PriorityMax), V.PriorityMax)
      \o one(has("dueDate") /\ \E d \in f.dueDate : ~(d >= HalfDays(now)),
             V.DueDatePast)
      \o one(has("tags") /\ \E i \in DOMAIN f.tags : Len(f.tags[i]) > TagMaxLen,
             V.TagTooLong)

\* taskSchema.pre('save'): the completedAt bookkeeping of a saved document
taskPreSave(doc, completedModified) ==
  IF completedModified /\ doc.completed /\ doc.completedAt = {}
    THEN [doc EXCEPT !.completedAt = {now}]
  ELSE IF completedModified /\ ~doc.completed /\ doc.completedAt # {}
    THEN [doc EXCEPT !.completedAt = {}]
  ELSE doc

\* the documents of the collection that a filter {_id?, userId, completed?}
\* selects; the filter's strings are cast to ObjectIds
OwnedBy(userIdStr) ==
  LET owner == CastObjectId(userIdStr)
  IN  {t \in tasks : t.userId \in owner}

\* a lookup by id alone, that does not look at the owner
FindTaskAnyOwner(idStr, userIdStr) ==
  LET id == CastObjectId(idStr)
  IN  {t \in tasks : t._id \in id}
FindTask(idStr, userIdStr) ==
  LET id == CastObjectId(idStr)
  IN  {t \in OwnedBy(userIdStr) : t._id \in id}

---------------------------------------------------------------------------
(* Task routes (routes/tasks.js): the handlers *)

EmptyRecord == [k \in {} |-> {}]

\* what a handler does: the collection after it, and its response
Outcome(store, response) == [tasks |-> store, res |-> response]

\* an owner that the body of the request can name
taskOwnerFromBody(user, body) ==
  IF "userId" \in DOMAIN body THEN CastObjectId(body.userId)
                              ELSE CastObjectId(user.id)

\* new Task({ userId: req.user.id, ... }): the owner of a new task
taskOwner(user, body) == CastObjectId(user.id)

\* router.post('/')
createTask(user, body) ==
  LET title == Field(body, "title")
      description == Field(body, "description")
      category == Field(body, "category")
      priority == Field(body, "priority")
      dueDate == UNION Field(body, "dueDate")
      tags == Field(body, "tags")
  IN
  IF ~Truthy(title) \/ \E v \in title : Trim(v) = <<>>
    THEN Outcome(tasks, Fail(400, M.TitleRequired))
  ELSE IF \E p \in priority : p # 0 /\ (p < Num(PriorityMin) \/ p > Num(PriorityMax))
    THEN Outcome(tasks, Fail(400, M.PriorityRange))
  ELSE
    LET fields ==
          [userId |-> taskOwner(user, body),
           title |-> Trim(CHOOSE v \in title : TRUE),
           description |->
             IF Truthy(description) THEN Trim(CHOOSE v \in description : TRUE)
                                    ELSE <<>>,
           category |->
             IF \E c \in category : c # "" THEN CHOOSE c \in category : TRUE
                                         ELSE DefaultCategory,
           priority |->
             IF \E p \in priority : p # 0 THEN CHOOSE p \in priority : TRUE
                                         ELSE Num(DefaultPriority),
           dueDate |-> dueDate,
           tags |-> IF tags = {} THEN <<>>
                    ELSE LET ts == CHOOSE v \in tags : TRUE
                         IN  [i \in DOMAIN ts |-> Trim(ts[i])]]
        errors == ValidateTaskFields(fields)
    IN
    IF errors # <<>>
      THEN Outcome(tasks, Fail(400, errors))
    ELSE
      LET doc == [_id |-> NextObjectId,
                  userId |-> CHOOSE u \in fields.userId : TRUE,
                  title |-> fields.title,
                  description |-> fields.description,
                  category |-> fields.category,
                  priority |-> fields.priority,
                  dueDate |-> fields.dueDate,
                  completed |-> FALSE,
                  completedAt |-> {},
                  tags |-> fields.tags,
                  createdAt |-> now,
                  updatedAt |-> now]
          savedTask == taskPreSave(doc, FALSE)
      IN  Outcome(tasks \cup {savedTask}, Ok(201, M.Created, [task |-> savedTask]))

\* router.get('/:id')
getTask(user, taskId) ==
  IF ~IsObjectIdString(taskId)
    THEN Outcome(tasks, Fail(400, M.InvalidId))
  ELSE
    LET found == FindTask(taskId, user.id)
    IN  IF found = {}
          THEN Outcome(tasks, Fail(404, M.TaskNotFound))
          ELSE Outcome(tasks, Ok(200, M.Fetched,
                                 [task |-> CHOOSE t \in found : TRUE]))

\* updateFields with a priority in every update, the default one when the
\* body has none
UpdateFieldsWithPriority(body) ==
  LET part(k, v) == IF k \in DOMAIN body THEN (k :> v) ELSE EmptyRecord
  IN  part("title", Trim(body.title))
      @@ part("description", Trim(body.description))
      @@ part("category", body.category)
      @@ part("priority", body.priority)
      @@ ("priority" :> Num(DefaultPriority))
      @@ part("dueDate", body.dueDate)
      @@ part("completed", body.completed)
      @@ part("tags", body.tags)

\* the update document of router.put('/:id'): only the supplied fields
UpdateFields(body) ==
  LET part(k, v) == IF k \in DOMAIN body THEN (k :> v) ELSE EmptyRecord
  IN  part("title", Trim(body.title))
      @@ part("description", Trim(body.description))
      @@ part("category", body.category)
      @@ part("priority", body.priority)
      @@ part("dueDate", body.dueDate)
      @@ part("completed", body.completed)
      @@ part("tags", body.tags)

\* an update that also puts completed back to false when it is not supplied
ApplyUpdateResetting(t, update) ==
  LET set(k) == IF k \in DOMAIN update THEN update[k] ELSE t[k]
  IN  [_id |-> t._id,
       userId |-> t.userId,
       title |-> set("title"),
       description |-> set("description"),
       category |-> set("category"),
       priority |-> set("priority"),
       dueDate |-> set("dueDate"),
       completed |-> IF "completed" \in DOMAIN update THEN update.completed ELSE FALSE,
       completedAt |-> t.completedAt,
       tags |-> set("tags"),
       createdAt |-> t.createdAt,
       updatedAt |-> now]

\* Task.findOneAndUpdate(filter, update, {new: true, runValidators: true}):
\* a single $set of the update's fields and of updatedAt; no save middleware
\* runs for it
ApplyUpdate(t, update) ==
  LET set(k) == IF k \in DOMAIN update THEN update[k] ELSE t[k]
  IN  [_id |-> t._id,
       userId |-> t.userId,
       title |-> set("title"),
       description |-> set("description"),
       category |-> set("category"),
       priority |-> set("priority"),
       dueDate |-> set("dueDate"),
       completed |-> set("completed"),
       completedAt |-> t.completedAt,
       tags |-> set("tags"),
       createdAt |-> t.createdAt,
       updatedAt |-> now]

\* router.put('/:id')
updateTask(user, taskId, body) ==
  IF ~IsObjectIdString(taskId)
    THEN Outcome(tasks, Fail(400, M.InvalidId))
  ELSE IF \E p \in Field(body, "priority") :
            p # 0 /\ (p < Num(PriorityMin) \/ p > Num(PriorityMax))
    THEN Outcome(tasks, Fail(400, M.PriorityRange))
  ELSE IF \E v \in Field(body, "title") : Trim(v) = <<>>
    THEN Outcome(tasks, Fail(400, M.TitleRequired))
  ELSE
    LET updateFields == UpdateFields(body)
        errors == ValidateTaskFields(updateFields)
        found == FindTask(taskId, user.id)
    IN
    IF errors # <<>>
      THEN Outcome(tasks, Fail(400, errors))
    ELSE IF found = {}
      THEN Outcome(tasks, Fail(404, M.TaskNotFound))
    ELSE
      LET old == CHOOSE t \in found : TRUE
          updatedTask == ApplyUpdate(old, updateFields)
      IN  Outcome((tasks \ {old}) \cup {updatedTask},
                  Ok(200, M.Updated, [task |-> updatedTask]))

\* a delete that removes the task of that id before it looks at its owner
deleteTaskThenCheck(user, taskId) ==
  IF ~IsObjectIdString(taskId)
    THEN Outcome(tasks, Fail(400, M.InvalidId))
  ELSE
    LET found == FindTask(taskId, user.id)
        named == {t \in tasks : t._id \in CastObjectId(taskId)}
    IN  IF found = {}
          THEN Outcome(tasks \ named, Fail(404, M.TaskNotFound))
          ELSE Outcome(tasks \ found,
                       Ok(200, M.Deleted, [task |-> CHOOSE t \in found : TRUE]))

\* router.delete('/:id')
deleteTask(user, taskId) ==
  IF ~IsObjectIdString(taskId)
    THEN Outcome(tasks, Fail(400, M.InvalidId))
  ELSE
    LET found == FindTask(taskId, user.id)
    IN  IF found = {}
          THEN Outcome(tasks, Fail(404, M.TaskNotFound))
          ELSE Outcome(tasks \ found,
                       Ok(200, M.Deleted, [task |-> CHOOSE t \in found : TRUE]))

\* router.delete('/completed')
deleteCompleted(user) ==
  LET gone == {t \in OwnedBy(user.id) : t.completed}
  IN  Outcome(tasks \ gone,
              Ok(200, M.CompletedDeleted, [deletedCount |-> Cardinality(gone)]))

---------------------------------------------------------------------------
(* Queries that sort: statistics, upcoming tasks, the task list *)

\* the value a document is ordered by under a sort key; a missing date
\* orders before every date
SortValue(t, key) ==
  CASE key = "createdAt" -> t.createdAt
    [] key = "updatedAt" -> t.updatedAt
    [] key = "priority" -> t.priority
    [] key = "completed" -> IF t.completed THEN 1 ELSE 0
    [] key = "dueDate" -> IF t.dueDate = {} THEN -1 ELSE CHOOSE d \in t.dueDate : TRUE
    [] key = "_id" -> t._id

\* a sort specification is a sequence of <<key, direction>>, direction 1 for
\* ascending and -1 for descending; documents equal under it keep the
\* collection's order, the order of insertion
RECURSIVE Precedes(_, _, _)
Precedes(a, b, sortSpec) ==
  IF sortSpec = <<>> THEN a._id < b._id
  ELSE LET key == Head(sortSpec)[1]
           dir == Head(sortSpec)[2]
           va == SortValue(a, key)
           vb == SortValue(b, key)
       IN  IF va = vb THEN Precedes(a, b, Tail(sortSpec))
           ELSE IF dir = 1 THEN va < vb ELSE va > vb

RECURSIVE SortTasks(_, _)
SortTasks(S, sortSpec) ==
  IF S = {} THEN <<>>
  ELSE LET first == CHOOSE x \in S : \A y \in S \ {x} : Precedes(x, y, sortSpec)
       IN  <<first>> \o SortTasks(S \ {first}, sortSpec)

\* Query.sort merges a key into the sort options: a key already there gets
\* the new direction in place, a new key is appended
MergeSort(sortSpec, key, dir) ==
  IF \E i \in DOMAIN sortSpec : sortSpec[i][1] = key
    THEN [i \in DOMAIN sortSpec |->
            IF sortSpec[i][1] = key THEN <<key, dir>> ELSE sortSpec[i]]
    ELSE Append(sortSpec, <<key, dir>>)

\* taskSchema.pre(/^find/): every find query also sorts by createdAt, newest
\* first; the hook runs when the query executes, after the caller's sort
taskPreFind(sortSpec) == MergeSort(sortSpec, "createdAt", -1)

Take(seq, n) == SubSeq(seq, 1, IF n < Len(seq) THEN n ELSE Len(seq))

\* a skip that skips one document less
DropOneLess(seq, n) == SubSeq(seq, IF n > 0 THEN n ELSE 1, Len(seq))
Drop(seq, n) == SubSeq(seq, n + 1, Len(seq))

\* a percentage that is rounded down
FloorPercent(completed, total) == (100 * completed) \div total

\* Math.round(completed / total * 100)
RoundPercent(completed, total) == (200 * completed + total) \div (2 * total)

\* taskSchema.statics.getUserStats
getUserStats(userIdStr) ==
  LET mine == OwnedBy(userIdStr)
      done == Cardinality({t \in mine : t.completed})
      total == Cardinality(mine)
  IN  [total |-> total,
       completed |-> done,
       pending |-> total - done,
       completionRate |-> IF total > 0 THEN RoundPercent(done, total) ELSE 0]

UpcomingDays == 3
UpcomingShown == 5

\* a query for the upcoming tasks that does not ask for completed: false
getUpcomingAlsoCompleted(userIdStr, days) ==
  LET due == {t \in OwnedBy(userIdStr) :
                \E d \in t.dueDate :
                  d >= HalfDays(now) /\ d <= HalfDays(now + days)}
  IN  SortTasks(due, taskPreFind(<<<<"dueDate", 1>>>>))

\* taskSchema.statics.getUpcomingTasks
getUpcomingTasks(userIdStr, days) ==
  LET due == {t \in OwnedBy(userIdStr) :
                /\ ~t.completed
                /\ \E d \in t.dueDate :
                  d >= HalfDays(now) /\ d <= HalfDays(now + days)}
  IN  SortTasks(due, taskPreFind(<<<<"dueDate", 1>>>>))

\* router.get('/stats')
taskStats(user) ==
  Outcome(tasks,
          Ok(200, M.StatsOk,
             [stats |-> getUserStats(user.id),
              upcomingTasks |->
                Take(getUpcomingTasks(user.id, UpcomingDays), UpcomingShown)]))

RECURSIVE DigitsValue(_)
DigitsValue(s) ==
  IF s = <<>> THEN 0
  ELSE 10 * DigitsValue(SubSeq(s, 1, Len(s) - 1)) + DigitValue(s[Len(s)])

\* parseInt of a string: the optional sign and the leading digits; NaN ({})
\* when there is no leading digit
ParseInt(s) ==
  LET t == Trim(s)
      neg == t # <<>> /\ t[1] = "-"
      body == IF neg THEN Tail(t) ELSE t
      stops == {i \in 1..Len(body) : body[i] \notin Digits}
      n == IF stops = {} THEN Len(body) ELSE SetMin(stops) - 1
      v == DigitsValue(SubSeq(body, 1, n))
  IN  IF n = 0 THEN {} ELSE {IF neg THEN 0 - v ELSE v}

\* Math.ceil(a / l), l # 0
Ceil(a, l) == IF l > 0 THEN (a + l - 1) \div l ELSE 0 - (a \div (0 - l))

DefaultPage == 1
DefaultLimit == 10

\* router.get('/'): the query's values are strings.  A skip or a limit that is
\* NaN is sent to the store as it is: a store that is lenient reads it as 0,
\* a store that is not fails the query; a negative skip fails in every store
listTasks(user, query, lenient) ==
  LET completed == Field(query, "completed")
      category == Field(query, "category")
      priority == Field(query, "priority")
      dueDate == Field(query, "dueDate")
      sortBy == IF "sortBy" \in DOMAIN query THEN query.sortBy ELSE "createdAt"
      sortOrder == IF "sortOrder" \in DOMAIN query THEN query.sortOrder ELSE "desc"
      matching ==
        {t \in OwnedBy(user.id) :
           /\ \A c \in completed : t.completed = (c = "true")
           /\ \A c \in category : c = "" \/ t.category = c
           /\ \A p \in priority : p = <<>> \/ {t.priority} = {Num(v) : v \in ParseInt(p)}
           /\ \A d \in dueDate : \E td \in t.dueDate : td >= d /\ td < d + HalfDays(1)}
      sortOptions == <<<<sortBy, IF sortOrder = "asc" THEN 1 ELSE -1>>>>
      pageNum == IF "page" \in DOMAIN query THEN ParseInt(query.page) ELSE {DefaultPage}
      limitNum == IF "limit" \in DOMAIN query THEN ParseInt(query.limit) ELSE {DefaultLimit}
      skip == {(pg - 1) * l : pg \in pageNum, l \in limitNum}
      totalCount == Cardinality(matching)
  IN
  IF (~lenient /\ (skip = {} \/ limitNum = {})) \/ \E k \in skip : k < 0
    THEN Outcome(tasks, Fail(500, M.ListFailed))
  ELSE
    LET l == IF limitNum = {} THEN 0 ELSE CHOOSE v \in limitNum : TRUE
        sorted == SortTasks(matching, taskPreFind(sortOptions))
        skipped == Drop(sorted, IF skip = {} THEN 0 ELSE CHOOSE k \in skip : TRUE)
        \* limit 0 is no limit, a negative limit is its absolute value
        page == IF l = 0 THEN skipped
                ELSE Take(skipped, IF l < 0 THEN 0 - l ELSE l)
    IN  Outcome(tasks,
                Ok(200, M.ListOk,
                   [tasks |-> page,
                    \* a number that is NaN or infinite is null in the JSON
                    pagination |->
                      [currentPage |-> pageNum,
                       totalPages |-> IF l = 0 THEN {} ELSE {Ceil(totalCount, l)},
                       totalItems |-> totalCount,
                       itemsPerPage |-> limitNum]]))

---------------------------------------------------------------------------
(* Task routes: the router *)

S_stats == <<"s","t","a","t","s">>
S_completed == <<"c","o","m","p","l","e","t","e","d">>

\* the routes in the order of their registration; a request path is the
\* sequence of its segments after /api/tasks
TaskRoutes ==
  << [method |-> "POST", kind |-> "root", lit |-> <<>>, handler |-> "createTask"],
     [method |-> "GET", kind |-> "root", lit |-> <<>>, handler |-> "listTasks"],
     [method |-> "GET", kind |-> "literal", lit |-> S_stats, handler |-> "taskStats"],
     [method |-> "GET", kind |-> "param", lit |-> <<>>, handler |-> "getTask"],
     [method |-> "PUT", kind |-> "param", lit |-> <<>>, handler |-> "updateTask"],
     [method |-> "DELETE", kind |-> "param", lit |-> <<>>, handler |-> "deleteTask"],
     [method |-> "DELETE", kind |-> "literal", lit |-> S_completed,
      handler |-> "deleteCompleted"] >>

RouteMatches(route, method, path) ==
  /\ route.method = method
  /\ CASE route.kind = "root" -> path = <<>>
       [] route.kind = "literal" -> path = <<route.lit>>
       [] route.kind = "param" -> Len(path) = 1 /\ path[1] # <<>>

\* the first registered route that matches handles the request
Dispatch(method, path) ==
  LET hits == {i \in DOMAIN TaskRoutes : RouteMatches(TaskRoutes[i], method, path)}
  IN  IF hits = {} THEN "notFound" ELSE TaskRoutes[SetMin(hits)].handler

\* app.use('*'): the answer to a path no route matches
notFound == [status |-> 404, error |-> "\"Not Found\"", message |-> M.NoRoute]

RunHandler(handler, user, r, lenient) ==
  CASE handler = "createTask" -> createTask(user, r.body)
    [] handler = "listTasks" -> listTasks(user, r.query, lenient)
    [] handler = "taskStats" -> taskStats(user)
    [] handler = "getTask" -> getTask(user, r.path[1])
    [] handler = "updateTask" -> updateTask(user, r.path[1], r.body)
    [] handler = "deleteTask" -> deleteTask(user, r.path[1])
    [] handler = "deleteCompleted" -> deleteCompleted(user)
    [] OTHER -> Outcome(tasks, notFound)

Request(method, path, header, body, query) ==
  [method |-> method, path |-> path, header |-> header, body |-> body,
   query |-> query]

\* what the router does with a request once the middleware has answered: the
\* outcome of the handler of the first matching route with req.user set, or
\* the middleware's response and nothing else
Route(r, auth, route, lenient) ==
  IF auth.next
    THEN RunHandler(route, auth.user, r, lenient) @@ [user |-> {auth.user}, route |-> route]
    ELSE [tasks |-> tasks, res |-> auth.res, user |-> {},
          route |-> "authenticateToken"]

\* router.use(authenticateToken), then the routes
Serve(r, lenient) ==
  Route(r, authenticateToken(r.header), Dispatch(r.method, r.path), lenient)

\* a request under /api/tasks, served with a store of either kind
TaskServed(r) ==
  \E out \in {Serve(r, lenient) : lenient \in BOOLEAN} :
    /\ IF Cardinality(out.tasks) > Cardinality(tasks) THEN nTasks < MaxTasks
                                                      ELSE TRUE
    /\ tasks' = out.tasks
    /\ nTasks' = nTasks + Cardinality(out.tasks \ tasks)
                        - Cardinality({t \in out.tasks \ tasks :
                                         \E o \in tasks : o._id = t._id})
    /\ req' = r @@ [base |-> "/api/tasks", user |-> out.user, route |-> out.route]
    /\ res' = out.res
    /\ UNCHANGED <<users, nUsers, now, held, loggedOut>>

\* a request under /api/tasks that a client other than the browser
\* application sends, and whose handler does not wait between its reads
TaskRequest(r) == TaskServed(r) /\ UNCHANGED <<pending, client>>

\* the requests of the clients, drawn from the given headers and inputs
PostTasks(headers, bodies) ==
  \E h \in headers, b \in bodies :
    TaskRequest(Request("POST", <<>>, h, b, EmptyRecord))

GetTasks(headers, queries) ==
  \E h \in headers, q \in queries :
    TaskRequest(Request("GET", <<>>, h, EmptyRecord, q))

GetTasksPath(headers, segments) ==
  \E h \in headers, s \in segments :
    TaskRequest(Request("GET", <<s>>, h, EmptyRecord, EmptyRecord))

PutTasksPath(headers, segments, bodies) ==
  \E h \in headers, s \in segments, b \in bodies :
    TaskRequest(Request("PUT", <<s>>, h, b, EmptyRecord))

DeleteTasksPath(headers, segments) ==
  \E h \in headers, s \in segments :
    TaskRequest(Request("DELETE", <<s>>, h, EmptyRecord, EmptyRecord))

\* app.get('/'), app.get('/api/health') and app.use('*') of server.js, which
\* come after the two routers: the welcome message, the state of the server
\* and the answer to every other path; the field status of the health body
\* is bodyStatus here, status being the HTTP status
S_api == <<"a","p","i">>
S_health == <<"h","e","a","l","t","h">>

appHandler(method, path) ==
  IF method = "GET" /\ path = <<>>
    THEN [route |-> "welcome",
          res |-> [status |-> 200, message |-> M.Welcome, version |-> "1.0.0",
                   endpoints |-> [auth |-> "/api/auth", tasks |-> "/api/tasks"]]]
  ELSE IF method = "GET" /\ path = <<S_api, S_health>>
    THEN [route |-> "health",
          res |-> [status |-> 200, bodyStatus |-> "OK", message |-> M.Healthy,
                   timestamp |-> now]]
  ELSE [route |-> "notFound", res |-> notFound]

AppRequest(methods, paths) ==
  \E m \in methods, p \in paths : \E out \in {appHandler(m, p)} :
    /\ req' = Request(m, p, {}, EmptyRecord, EmptyRecord)
                @@ [base |-> "/", user |-> {}, route |-> out.route]
    /\ res' = out.res
    /\ UNCHANGED <<users, tasks, nUsers, nTasks, now, held, loggedOut, pending, client>>

\* time passes
Tick(d) ==
  /\ now + d <= MaxTime
  /\ now' = now + d
  /\ req' = NoRequest
  /\ res' = NoResponse
  /\ UNCHANGED <<users, tasks, nUsers, nTasks, held, loggedOut, pending, client>>

---------------------------------------------------------------------------
(* User model (models/User.js) *)

\* \w+([.-]?\w+)* : runs of word characters with single "." or "-" between
Dotted(s) ==
  /\ s # <<>>
  /\ s[1] \in WordChars
  /\ s[Len(s)] \in WordChars
  /\ \A i \in 1..Len(s) : s[i] \in WordChars \cup {".", "-"}
  /\ \A i \in 1..(Len(s) - 1) : s[i] \in WordChars \/ s[i + 1] \in WordChars

\* (\.\w{2,3})+
RECURSIVE TldRun(_)
TldRun(s) ==
  /\ s # <<>>
  /\ s[1] = "."
  /\ \E k \in {2, 3} :
       /\ Len(s) >= 1 + k
       /\ \A i \in 2..(1 + k) : s[i] \in WordChars
       /\ (Len(s) = 1 + k \/ TldRun(SubSeq(s, 2 + k, Len(s))))

\* /^\w+([.-]?\w+)*@\w+([.-]?\w+)*(\.\w{2,3})+$/.test(s)
EmailRegexTest(s) ==
  \E at \in 1..Len(s) :
    /\ s[at] = "@"
    /\ Dotted(SubSeq(s, 1, at - 1))
    /\ \E cut \in (at + 1)..Len(s) :
         /\ Dotted(SubSeq(s, at + 1, cut))
         /\ TldRun(SubSeq(s, cut + 1, Len(s)))

MinPasswordLen == 6
NameMaxLen == 50
BcryptRounds == 12

\* the setters of the email path: lowercase, trim
emailSetters(v) == Trim(ToLowerCase(v))

\* the cast of an email in a query filter: no setter is applied
castEmailRaw(v) == v

\* the cast of an email in a query filter: the setters of the path apply
castEmailForQuery(v) == emailSetters(v)

\* User.findOne({ email })
findUserByEmail(email) == {u \in users : u.email = castEmailForQuery(email)}

\* password has select: false: a query that does not ask for it with
\* select('+password') returns the documents without the field
selectDefault(u) == [k \in DOMAIN u \ {"password"} |-> u[k]]

\* User.findById(id)
findUserById(idStr) ==
  LET id == CastObjectId(idStr)
  IN  {selectDefault(u) : u \in {x \in users : x._id \in id}}

\* bcrypt.hash(password, salt), idealised as an injective pairing
Hash(password, salt) ==
  [rounds |-> BcryptRounds, salt |-> salt, digest |-> <<salt, password>>]

\* userSchema.methods.comparePassword
comparePassword(user, candidatePassword) ==
  Hash(candidatePassword, user.password.salt) = user.password

\* the messages of the validators of a new user document, in schema order
ValidateUser(name, email, password) ==
  LET one(cond, m) == IF cond THEN <<m>> ELSE <<>>
  IN  one(email = <<>>, V.EmailRequired)
      \o one(email # <<>> /\ ~EmailRegexTest(email), V.EmailMatch)
      \o one(password = <<>>, V.PasswordRequired)
      \o one(password # <<>> /\ Len(password) < MinPasswordLen, V.PasswordShort)
      \o one(name = <<>>, V.NameRequired)
      \o one(Len(name) > NameMaxLen, V.NameTooLong)

\* a hook that hashes on every save: a stored hash, whose text begins "$2",
\* is hashed again
userPreSaveAlways(doc, passwordModified) ==
  [doc EXCEPT !.password =
     Hash(IF passwordModified THEN doc.password ELSE <<"$", "2">>, doc._id)]

\* userSchema.pre('save'): the password is hashed, with a salt of its own,
\* when it was modified, and is left as it is stored otherwise
userPreSave(doc, passwordModified) ==
  IF ~passwordModified THEN doc
  ELSE [doc EXCEPT !.password = Hash(doc.password, doc._id)]

\* a new user document as it is saved at time t
UserDoc(id, name, email, password, t) ==
  userPreSave([_id |-> id, email |-> email, password |-> password,
               name |-> name, subscription |-> "free", isActive |-> TRUE,
               createdAt |-> t, updatedAt |-> t],
              TRUE)

\* a serialisation that is the document as it is, this.toObject()
toObject(user) == user

\* userSchema.methods.toJSON
toJSON(user) ==
  [_id |-> user._id, email |-> user.email, name |-> user.name,
   subscription |-> user.subscription, isActive |-> user.isActive,
   createdAt |-> user.createdAt, updatedAt |-> user.updatedAt]

E_a == <<"a","@","x",".","c","o">>
E_A == <<"A","@","X",".","c","o">>
E_b == <<"b","@","x",".","c","o">>
E_padded == <<" ","a","@","x",".","c","o"," ">>
P_secret == <<"s","e","c","r","e","t">>
P_wrong == <<"s","e","c","r","e","T">>
P_short == <<"a","b","c">>
N_kim == <<"K","i","m">>

---------------------------------------------------------------------------
(* Auth routes (routes/auth.js): the handlers *)

\* what a handler does: the collection after it, its response, and the token
\* it issued, if any
AuthOutcome(store, response, issued) ==
  [users |-> store, res |-> response, issued |-> issued]

\* newUser.save() and the response of router.post('/register'): validation,
\* then the insert, which the unique index on email can refuse
saveNewUser(name, email, password) ==
  LET errors == ValidateUser(name, email, password)
      newUser == UserDoc(NextObjectId, name, email, password, now)
      token == generateToken(newUser)
  IN  IF errors # <<>>
        THEN AuthOutcome(users, Fail(400, errors), {})
      ELSE IF \E u \in users : u.email = email
        THEN AuthOutcome(users, Fail(500, M.ServerError), {})
      ELSE AuthOutcome(users \cup {newUser},
                       Ok(201, M.Registered,
                          [user |-> toJSON(newUser), token |-> token]),
                       {token})

\* router.post('/register') once name, email and password are present
registerUser(name, email, password) ==
  IF ~EmailRegexTest(email)
    THEN AuthOutcome(users, Fail(400, M.InvalidEmail), {})
  ELSE IF Len(password) < MinPasswordLen
    THEN AuthOutcome(users, Fail(400, M.PasswordShort), {})
  ELSE IF findUserByEmail(email) # {}
    THEN AuthOutcome(users, Fail(409, M.DuplicateEmail), {})
  ELSE saveNewUser(Trim(Trim(name)), emailSetters(Trim(ToLowerCase(email))),
                   password)

\* router.post('/register')
register(body) ==
  IF ~Truthy(Field(body, "name")) \/ ~Truthy(Field(body, "email"))
     \/ ~Truthy(Field(body, "password"))
    THEN AuthOutcome(users, Fail(400, M.RegisterRequired), {})
    ELSE registerUser(body.name, body.email, body.password)

\* router.post('/login') once the user was looked up
loginUser(found, password) ==
  IF found = {}
    THEN AuthOutcome(users, Fail(401, M.BadCredentials), {})
  ELSE IF \E u \in found : ~u.isActive
    THEN AuthOutcome(users, Fail(401, M.DeactivatedLogin), {})
  ELSE IF \E u \in found : ~comparePassword(u, password)
    THEN AuthOutcome(users, Fail(401, M.BadCredentials), {})
  ELSE
    LET user == CHOOSE u \in found : TRUE
        saved == userPreSave([user EXCEPT !.updatedAt = now], FALSE)
        token == generateToken(user)
    IN  AuthOutcome((users \ {user}) \cup {saved},
                    Ok(200, M.LoggedIn, [user |-> toJSON(saved), token |-> token]),
                    {token})

\* router.post('/login')
login(body) ==
  IF ~Truthy(Field(body, "email")) \/ ~Truthy(Field(body, "password"))
    THEN AuthOutcome(users, Fail(400, M.LoginRequired), {})
    ELSE loginUser(findUserByEmail(Trim(ToLowerCase(body.email))), body.password)

\* a logout that deactivates the accounts
logoutDeactivating ==
  AuthOutcome({[u EXCEPT !.isActive = FALSE] : u \in users},
              [status |-> 200, error |-> "false", message |-> M.LoggedOut], {})

\* router.post('/logout')
logout ==
  AuthOutcome(users, [status |-> 200, error |-> "false", message |-> M.LoggedOut], {})

\* router.get('/me') that does not look at isActive
meUserAnyState(found) ==
  IF found = {}
    THEN AuthOutcome(users, Fail(401, M.InvalidUser), {})
    ELSE AuthOutcome(users,
                     Ok(200, M.MeOk, [user |-> toJSON(CHOOSE u \in found : TRUE)]),
                     {})

\* router.get('/me') once the user was looked up
meUser(found) ==
  IF found = {}
    THEN AuthOutcome(users, Fail(401, M.InvalidUser), {})
  ELSE IF \E u \in found : ~u.isActive
    THEN AuthOutcome(users, Fail(401, M.Deactivated), {})
  ELSE AuthOutcome(users,
                   Ok(200, M.MeOk, [user |-> toJSON(CHOOSE u \in found : TRUE)]),
                   {})

\* router.get('/me') once jwt.verify has returned or thrown
meVerified(v) ==
  IF v.ok THEN meUser(findUserById(v.decoded.id))
  ELSE IF v.name = "JsonWebTokenError"
    THEN AuthOutcome(users, Fail(401, M.InvalidToken), {})
  ELSE IF v.name = "TokenExpiredError"
    THEN AuthOutcome(users, Fail(401, M.ExpiredToken), {})
  ELSE AuthOutcome(users, Fail(500, M.ServerError), {})

\* router.get('/me')
me(header) ==
  IF header = {} \/ \E h \in header : ~StartsWith(h.scheme, BearerPrefix)
    THEN AuthOutcome(users, Fail(401, M.AuthRequired), {})
    ELSE meVerified(JwtVerify((CHOOSE h \in header : TRUE).cred, JWT_SECRET, now))

S_register == <<"r","e","g","i","s","t","e","r">>
S_login == <<"l","o","g","i","n">>
S_logout == <<"l","o","g","o","u","t">>
S_me == <<"m","e">>

\* a request under /api/auth, answered by its handler; sent is the set of
\* held tokens that went with a logout
AuthServed(r, route, out, sent) ==
  /\ IF Cardinality(out.users) > Cardinality(users) THEN nUsers < MaxUsers
                                                    ELSE TRUE
  /\ Cardinality(held \cup out.issued) <= MaxHeld
  /\ users' = out.users
  /\ nUsers' = nUsers + Cardinality(out.users) - Cardinality(users)
  /\ held' = held \cup out.issued
  /\ loggedOut' = loggedOut \cup sent
  /\ req' = r @@ [base |-> "/api/auth", user |-> {}, route |-> route]
  /\ res' = out.res
  /\ UNCHANGED <<tasks, nTasks, now>>

AuthRequest(r, route, out, sent) ==
  AuthServed(r, route, out, sent) /\ UNCHANGED <<pending, client>>

Register(bodies) ==
  \E b \in bodies : \E out \in {register(b)} :
    /\ AuthRequest(Request("POST", <<S_register>>, {}, b, EmptyRecord),
                   "register", out, {})

Login(bodies) ==
  \E b \in bodies : \E out \in {login(b)} :
    /\ AuthRequest(Request("POST", <<S_login>>, {}, b, EmptyRecord),
                   "login", out, {})

Logout(headers) ==
  \E h \in headers : \E out \in {logout} :
    /\ AuthRequest(Request("POST", <<S_logout>>, h, EmptyRecord, EmptyRecord),
                   "logout", out, {x.cred : x \in {y \in h : y.cred \in held}})

Me(headers) ==
  \E h \in headers : \E out \in {me(h)} :
    /\ AuthRequest(Request("GET", <<S_me>>, h, EmptyRecord, EmptyRecord),
                   "me", out, {})

\* an account is deactivated, by an administrator in the database: no route
\* does it
DeactivateUser ==
  \E u \in users :
    /\ u.isActive
    /\ users' = (users \ {u}) \cup {[u EXCEPT !.isActive = FALSE]}
    /\ req' = NoRequest
    /\ res' = NoResponse
    /\ UNCHANGED <<tasks, nUsers, nTasks, now, held, loggedOut, pending, client>>

\* an account is removed from the collection, likewise
RemoveUser ==
  \E u \in users :
    /\ users' = users \ {u}
    /\ req' = NoRequest
    /\ res' = NoResponse
    /\ UNCHANGED <<tasks, nUsers, nTasks, now, held, loggedOut, pending, client>>

---------------------------------------------------------------------------
(* The task routes with two registered users *)

\* what a client can put in the Authorization header: nothing, a held token,
\* a held token under another scheme, a held token signed again with another
\* key, or something that is no token
BasicPrefix == <<"B","a","s","i","c"," ">>
Forge(t) == [t EXCEPT !.sig = Mac(t.claims, "attacker-key")]
Garbage == [kind |-> "garbage"]

Bearer(t) == {[scheme |-> BearerPrefix, cred |-> t]}

HeldHeaders == {Bearer(t) : t \in held}

BadHeaders ==
  {{}}
  \cup {Bearer(Forge(t)) : t \in held}
  \cup {{[scheme |-> BasicPrefix, cred |-> t]} : t \in held}
  \cup {Bearer(Garbage)}

T_milk == <<"B","u","y"," ","m","i","l","k">>
T_blank == <<" ">>
S_short == <<"1","2","3">>

PostBodies == { [title |-> T_milk], [title |-> T_blank] }

PutBodies == { [completed |-> TRUE], [completed |-> FALSE] }

\* the ids the tasks get
IdSegments == {OidStr(2 + k) : k \in 1..MaxTasks}

\* two users registered TokenTTL days before MaxTime; the first still holds
\* the token of the registration, the second one logged in a day before MaxTime
InitTasks ==
  LET t0 == MaxTime - TokenTTL
      u1 == UserDoc(1, N_kim, E_a, P_secret, t0)
      u2 == [UserDoc(2, N_kim, E_b, P_secret, t0)
               EXCEPT !.updatedAt = MaxTime - 1]
  IN  /\ users = {u1, u2}
      /\ tasks = {}
      /\ nUsers = 2
      /\ nTasks = 0
      /\ now = MaxTime - 1
      /\ held = { JwtSign([id |-> OidStr(1), email |-> E_a], JWT_SECRET, t0),
                  JwtSign([id |-> OidStr(2), email |-> E_b], JWT_SECRET,
                          MaxTime - 1) }
      /\ loggedOut = {}
      /\ req = NoRequest
      /\ res = NoResponse
      /\ pending = {}
      /\ client = NoClient

\* the requests of the clients that hold a token, and of one that holds none
TaskClients == HeldHeaders \cup {{}}

NextTasks ==
  \/ PostTasks(TaskClients, PostBodies)
  \/ GetTasks(TaskClients, {EmptyRecord})
  \/ GetTasksPath(TaskClients, IdSegments \cup {S_stats, S_short})
  \/ PutTasksPath(TaskClients, IdSegments \cup {S_completed, S_short}, PutBodies)
  \/ DeleteTasksPath(TaskClients, IdSegments \cup {S_completed, S_short})

SpecTasks == InitTasks /\ [][NextTasks]_vars

---------------------------------------------------------------------------
(* Properties of the task routes *)

\* the user documents' ids that a verified request acts for
Caller == UNION {CastObjectId(u.id) : u \in req.user}

\* C1: in every reachable state of the task store, after any sequence of
\* create and update requests, every task has completed true if and only if
\* its completedAt is set
C1_CompletedIffCompletedAt ==
  \A t \in tasks : t.completed <=> (t.completedAt # {})

\* C2: a PUT by the owner that turns completed from false to true sets
\* completedAt to the time of the request, which is not before the task's
\* creation, and a PUT that turns completed from true to false clears it
C2_Step ==
  (req'.method = "PUT" /\ res'.status = 200) =>
    \A old \in tasks : \A new \in tasks' :
      (old._id = new._id) =>
        /\ (~old.completed /\ new.completed) =>
             (new.completedAt = {now'} /\ new.createdAt <= now')
        /\ (old.completed /\ ~new.completed) => new.completedAt = {}

C2_CompletedAtFollowsCompleted == [][C2_Step]_vars

\* C3: a get, update or delete by id that a user issues for a task of another
\* user is answered 404 and leaves the task as it is, and a list that a user
\* issues contains no task of another user
C3_Step ==
  \A u \in req'.user : \A t \in tasks :
    (t.userId \notin CastObjectId(u.id)) =>
      /\ t \in tasks'
      /\ (req'.method \in {"GET", "PUT", "DELETE"}
          /\ req'.path = <<OidStr(t._id)>>) => res'.status = 404
      /\ (req'.method = "GET" /\ req'.path = <<>> /\ res'.status = 200) =>
           \A i \in DOMAIN res'.data.tasks : res'.data.tasks[i]._id # t._id

C4_RouteDispatchOrder ==
  (req.user # {}) =>
    /\ (req.method = "DELETE" /\ req.path = <<S_completed>>) =>
         req.route = "deleteCompleted"
    /\ (req.method = "GET" /\ req.path = <<S_stats>>) => req.route = "taskStats"

\* C5: an authenticated DELETE /completed removes exactly the caller's
\* completed tasks, and answers 200 with their number as deletedCount, also
\* when that number is zero
C5_Step ==
  (req'.method = "DELETE" /\ req'.path = <<S_completed>> /\ req'.user # {}) =>
    LET gone == {t \in tasks : t.completed
                               /\ \E u \in req'.user : t.userId \in CastObjectId(u.id)}
    IN  /\ tasks' = tasks \ gone
        /\ res'.status = 200
        /\ res'.data.deletedCount = Cardinality(gone)

C5_BulkDelete == [][C5_Step]_vars

---------------------------------------------------------------------------
(* The authorization middleware in front of the task routes, as time passes *)

\* every kind of header on every route, until the first token has expired
GateClients == HeldHeaders \cup BadHeaders

NextGate ==
  \/ PostTasks(GateClients, {[title |-> T_milk]})
  \/ GetTasks(GateClients, {EmptyRecord})
  \/ GetTasksPath(GateClients, {OidStr(3), S_stats})
  \/ PutTasksPath(GateClients, {OidStr(3)}, {[completed |-> TRUE]})
  \/ DeleteTasksPath(GateClients, {OidStr(3), S_completed})
  \/ Tick(1)

SpecGate == InitTasks /\ [][NextGate]_vars

---------------------------------------------------------------------------
(* Properties of the authorization middleware *)

WellSigned(tok) == tok.kind = "jwt" /\ tok.sig = Mac(tok.claims, JWT_SECRET)

Rejected(status, message) ==
  /\ res'.status = status
  /\ res'.message = message
  /\ req'.route = "authenticateToken"
  /\ req'.user = {}
  /\ tasks' = tasks
  /\ users' = users

\* C6: on every task route, a request without an Authorization header or with
\* one that does not start with "Bearer " gets 401, a token of bad structure
\* or signature gets 401 invalid token, an expired token gets 401 expired
\* token, in all these cases no handler runs and the store stays as it is;
\* a verified token reaches a handler with the id and email of its claims
C6_Step ==
  (req'.method # "none") =>
    /\ (req'.header = {}) => Rejected(401, M.AuthRequired)
    /\ \A h \in req'.header :
         IF ~StartsWith(h.scheme, BearerPrefix)
           THEN Rejected(401, M.AuthRequired)
         ELSE IF ~WellSigned(h.cred)
           THEN Rejected(401, M.InvalidToken)
         ELSE IF now' >= h.cred.claims.exp
           THEN Rejected(401, M.ExpiredToken)
         ELSE /\ req'.route # "authenticateToken"
              /\ req'.user = {[id |-> h.cred.claims.id,
                               email |-> h.cred.claims.email]}

C6_MiddlewareFirst == [][C6_Step]_vars

\* a task has been stored, and a request with an expired token has just been
\* turned away
C6_Witness ==
  /\ tasks # {}
  /\ req.method = "PUT"
  /\ \E h \in req.header : WellSigned(h.cred) /\ now >= h.cred.claims.exp
  /\ res.status = 401
  /\ res.message = M.ExpiredToken

---------------------------------------------------------------------------
(* Accounts and tokens: registration, login, logout, the clock *)

\* registrations that pass the handler's checks, the second email being the
\* first in upper case
ValidRegisterBodies ==
  {[name |-> N_kim, email |-> e, password |-> P_secret] : e \in {E_a, E_A, E_b}}

\* and registrations that do not: a padded email, a short password, no name
RegisterBodies ==
  ValidRegisterBodies
  \cup { [name |-> N_kim, email |-> E_padded, password |-> P_secret],
         [name |-> N_kim, email |-> E_a, password |-> P_short],
         [email |-> E_a, password |-> P_secret] }

LoginBodies ==
  { [email |-> E_a, password |-> P_secret],
    [email |-> E_a, password |-> P_wrong],
    [email |-> E_b, password |-> P_secret] }

InitAuth ==
  /\ users = {}
  /\ tasks = {}
  /\ nUsers = 0
  /\ nTasks = 0
  /\ now = MaxTime - TokenTTL - 1
  /\ held = {}
  /\ loggedOut = {}
  /\ req = NoRequest
  /\ res = NoResponse
  /\ pending = {}
  /\ client = NoClient

\* the task routes as a client with a token reaches them, with inputs that
\* leave the tasks collection as it is
TokenTaskRequests ==
  \/ PostTasks(HeldHeaders, {[title |-> T_blank]})
  \/ GetTasks(HeldHeaders, {EmptyRecord})
  \/ GetTasksPath(HeldHeaders, {S_stats, OidStr(2)})
  \/ PutTasksPath(HeldHeaders, {OidStr(2)}, {[completed |-> TRUE]})
  \/ DeleteTasksPath(HeldHeaders, {OidStr(2)})

\* the clock moves to the last day of a token issued at the start, or past it
Clock == \E d \in {TokenTTL - 1, TokenTTL} : Tick(d)

NextAuth ==
  \/ Register({b \in ValidRegisterBodies : b.email \in {E_a, E_b}})
  \/ Login({b \in LoginBodies : b.email = E_a})
  \/ Logout(HeldHeaders)
  \/ Me(HeldHeaders \cup {{}})
  \/ TokenTaskRequests
  \/ Clock

SpecAuth == InitAuth /\ [][NextAuth]_vars

---------------------------------------------------------------------------
(* Accounts that are deactivated or removed while their tokens are held *)

NextAccounts ==
  \/ Register(RegisterBodies)
  \/ Login(LoginBodies)
  \/ Me(HeldHeaders)
  \/ DeactivateUser
  \/ RemoveUser
  \/ TokenTaskRequests
  \/ Clock

SpecAccounts == InitAuth /\ [][NextAccounts]_vars

---------------------------------------------------------------------------
(* Properties of the tokens and the accounts *)

Expired == [ok |-> FALSE, name |-> "TokenExpiredError"]
Invalid == [ok |-> FALSE, name |-> "JsonWebTokenError"]

\* the verification of a token returns the id and email of the user document
Yields(tok, t, u) ==
  LET v == JwtVerify(tok, JWT_SECRET, t)
  IN  /\ v.ok
      /\ CastObjectId(v.decoded.id) = {u._id}
      /\ v.decoded.email = u.email

\* C7: the token that a registration or a login issues for a user verifies,
\* on each of the seven days from its issue, to the id and email of that
\* user, fails as expired from the seventh day after its issue on, and fails
\* as invalid at any time once its signature is altered; so do the held tokens
\* at the current time
C7_TokenRoundTrip ==
  /\ (req.route \in {"register", "login"} /\ res.status \in {200, 201}) =>
       /\ \A t \in now..(now + TokenTTL - 1) :
            Yields(res.data.token, t, res.data.user)
       /\ \A t \in (now + TokenTTL)..(MaxTime + TokenTTL) :
            JwtVerify(res.data.token, JWT_SECRET, t) = Expired
       /\ \A t \in now..(MaxTime + TokenTTL) :
            JwtVerify(Forge(res.data.token), JWT_SECRET, t) = Invalid
  /\ \A tok \in held :
       /\ JwtVerify(tok, JWT_SECRET, now).ok = (now < tok.claims.iat + TokenTTL)
       /\ (now >= tok.claims.iat + TokenTTL) =>
            JwtVerify(tok, JWT_SECRET, now) = Expired
       /\ Forge(tok).sig # tok.sig
       /\ JwtVerify(Forge(tok), JWT_SECRET, now) = Invalid

\* a login has just issued a token while a token issued earlier has expired
C7_Witness ==
  /\ req.route = "login"
  /\ res.status = 200
  /\ res.data.token \in held
  /\ \E tok \in held : now >= tok.claims.exp

Accepted(h) ==
  /\ req'.user = {[id |-> h.cred.claims.id, email |-> h.cred.claims.email]}
  /\ req'.route # "authenticateToken"
  /\ res'.status # 401

\* C8: a logout changes neither collection and answers 200, and a task
\* request with a token that was sent with an earlier logout is accepted by
\* the middleware as long as the token has not expired
C8_Step ==
  /\ (req'.route = "logout") =>
       (users' = users /\ tasks' = tasks /\ res'.status = 200)
  /\ \A h \in req'.header :
       (req'.base = "/api/tasks" /\ h.cred \in loggedOut
        /\ now' < h.cred.claims.exp) => Accepted(h)

Gone(tok) ==
  \A u \in users : (u._id \in CastObjectId(tok.claims.id)) => ~u.isActive

\* C9: with an unexpired token of a user whose document was deactivated or
\* removed, a request to a task route is accepted by the middleware and a
\* GET /api/auth/me is answered 401
C9_Step ==
  \A h \in req'.header :
    (WellSigned(h.cred) /\ now' < h.cred.claims.exp /\ Gone(h.cred)) =>
      /\ (req'.base = "/api/tasks") => Accepted(h)
      /\ (req'.route = "me") => (res'.status = 401 /\ users' = users)

C9_StaleAccountToken == [][C9_Step]_vars

\* the task list was answered 200 with the token of a deactivated user
C9_Witness ==
  /\ req.route = "listTasks"
  /\ res.status = 200
  /\ \E h \in req.header : \E u \in users :
       u._id \in CastObjectId(h.cred.claims.id) /\ ~u.isActive

\* a registration that passes the checks of the handler: the three fields
\* present, the email of the required form, the password long enough
ValidRegistration(body) ==
  /\ Truthy(Field(body, "name"))
  /\ Truthy(Field(body, "email"))
  /\ Truthy(Field(body, "password"))
  /\ EmailRegexTest(body.email)
  /\ Len(body.password) >= MinPasswordLen

\* C10: a registration with valid input whose email, trimmed and in lower
\* case, is the email of a stored user is answered 409 duplicate email and
\* stores no user
C10_Step ==
  (/\ req'.route = "register"
   /\ ValidRegistration(req'.body)
   /\ \E u \in users : u.email = Trim(ToLowerCase(req'.body.email))) =>
    (res'.status = 409 /\ res'.message = M.DuplicateEmail /\ users' = users)

C10_DuplicateEmail == [][C10_Step]_vars

\* a registration was answered 409 whose email differs from the stored one
\* in case only
C10_Witness ==
  /\ req.route = "register"
  /\ res.status = 409
  /\ \E u \in users :
       u.email # req.body.email /\ u.email = Trim(ToLowerCase(req.body.email))

---------------------------------------------------------------------------
(* Properties of the login *)

\* a login with both fields whose password is not the password of a stored
\* user with that email
FailedLogin(body, store) ==
  /\ Truthy(Field(body, "email"))
  /\ Truthy(Field(body, "password"))
  /\ \A u \in store :
       (u.email = Trim(ToLowerCase(body.email))) => ~comparePassword(u, body.password)

\* C11: the response to a login with an email and a password that is not the
\* password of that account is the same, status and message, whether or not
\* a user with that email is stored and whatever the state of the account:
\* it is the response given when no user has the email
C11_Step ==
  (req'.route = "login" /\ FailedLogin(req'.body, users)) =>
    /\ res'.status = 401
    /\ res' = loginUser({}, req'.body.password).res

C11_LoginLeaksNothing == [][C11_Step]_vars

\* C12: a login with the email and the password of a stored active user is
\* answered 200 with the id of that user, the id that the registration
\* returned and stored, however many logins came before; the save of the login
\* sets updatedAt to the time of the request and leaves the rest of the
\* document, the password hash with it, as it was
C12_Step ==
  /\ (req'.route = "register" /\ res'.status = 201) =>
       \E u \in users' \ users :
         /\ u._id = res'.data.user._id
         /\ u.email = Trim(ToLowerCase(req'.body.email))
         /\ u.isActive
         /\ comparePassword(u, req'.body.password)
  /\ (req'.route = "login" /\ Truthy(Field(req'.body, "email"))
      /\ Truthy(Field(req'.body, "password"))) =>
       \A u \in users :
         (/\ u.email = Trim(ToLowerCase(req'.body.email))
          /\ u.isActive
          /\ comparePassword(u, req'.body.password)) =>
           /\ res'.status = 200
           /\ res'.data.user._id = u._id
           /\ res'.data.token.claims.id = OidStr(u._id)
           /\ users' = (users \ {u}) \cup {[u EXCEPT !.updatedAt = now']}
           /\ \E v \in users' : v._id = u._id /\ v.password = u.password

C12_LoginAfterRegister == [][C12_Step]_vars

\* a login has succeeded on a later day than the registration of its user,
\* whose token of the registration is still held
C12_Witness ==
  /\ req.route = "login"
  /\ res.status = 200
  /\ res.data.user.createdAt < res.data.user.updatedAt
  /\ res.data.user.updatedAt = now
  /\ \E tok \in held :
       /\ tok.claims.id = res.data.token.claims.id
       /\ tok.claims.iat = res.data.user.createdAt

\* the paths of userSchema other than the password, with the timestamps
PublicPaths ==
  {"_id", "email", "name", "subscription", "isActive", "createdAt", "updatedAt"}

\* C13: the user object in the response of a register, a login or a /me has
\* no password field: its fields are among the other paths of the schema; so
\* it is for the login, which loads the user with the hash selected
C13_NoPasswordInResponse ==
  (req.route \in {"register", "login", "me"} /\ "data" \in DOMAIN res) =>
    /\ "password" \notin DOMAIN res.data.user
    /\ DOMAIN res.data.user \subseteq PublicPaths

\* a login was answered 200 with the user object of a user stored with a hash
C13_Witness ==
  /\ req.route = "login"
  /\ res.status = 200
  /\ \E u \in users :
       u._id = res.data.user._id /\ comparePassword(u, req.body.password)

---------------------------------------------------------------------------
(* The task list over a store that holds more than a page of tasks *)

\* the number of tasks in the store at the start
MaxListed == 13

\* the state of InitTasks after the tasks of S were created and updated
InitStored(S) ==
  LET t0 == MaxTime - TokenTTL
      u1 == UserDoc(1, N_kim, E_a, P_secret, t0)
      u2 == [UserDoc(2, N_kim, E_b, P_secret, t0)
               EXCEPT !.updatedAt = MaxTime - 1]
  IN  /\ users = {u1, u2}
      /\ tasks = S
      /\ nUsers = 2
      /\ nTasks = Cardinality(S)
      /\ now = MaxTime - 1
      /\ held = { JwtSign([id |-> OidStr(1), email |-> E_a], JWT_SECRET, t0),
                  JwtSign([id |-> OidStr(2), email |-> E_b], JWT_SECRET,
                          MaxTime - 1) }
      /\ loggedOut = {}
      /\ req = NoRequest
      /\ res = NoResponse
      /\ pending = {}
      /\ client = NoClient

\* the k-th task of the store: created by a POST {title, category, priority,
\* dueDate} of the owner on day created, and completed by a PUT when done
StoredTask(k, owner, created, due, done) ==
  [_id |-> 2 + k,
   userId |-> owner,
   title |-> T_milk,
   description |-> <<>>,
   category |-> IF k % 2 = 0 THEN "work" ELSE DefaultCategory,
   priority |-> Num(PriorityMin + (k % PriorityMax)),
   dueDate |-> due,
   completed |-> done,
   completedAt |-> {},
   tags |-> <<>>,
   createdAt |-> created,
   updatedAt |-> IF done THEN MaxTime - 1 ELSE created]

\* the last task is of the second user, the others of the first; three tasks
\* a day were created, every fourth is completed
ListedTasks ==
  {StoredTask(k, IF k = MaxListed THEN 2 ELSE 1,
              (MaxTime - TokenTTL) + (k \div 3), {}, k % 4 = 0) :
     k \in 1..MaxListed}

\* the queries of the clients: page and limit as they send them when they
\* send them well, over three filters, values of page and limit that are
\* no page and no limit, and the orders of two fields
ListQueries ==
  LET D(n) == <<HexDigit(n)>>
      paging ==
        {EmptyRecord, [page |-> D(2)], [page |-> D(1) \o D(2), limit |-> D(1)]}
        \cup {[page |-> D(pg), limit |-> D(5)] : pg \in 1..4}
        \cup {[page |-> D(2), limit |-> D(1) \o D(0)]}
      filters ==
        {EmptyRecord, [completed |-> "true"],
         [priority |-> D(3), sortBy |-> "priority", sortOrder |-> "asc"]}
      malformed ==
        {[page |-> <<"a","b","c">>], [page |-> <<>>], [page |-> D(0)],
         [page |-> <<"-">> \o D(1)], [limit |-> <<"a","b","c">>],
         [limit |-> D(0)], [limit |-> <<"-">> \o D(2)]}
      ordered ==
        {[sortBy |-> f, sortOrder |-> o] :
           f \in {"createdAt", "priority"}, o \in {"asc", "desc"}}
  IN  {pg @@ f : pg \in paging, f \in filters} \cup malformed \cup ordered

NextList ==
  \/ GetTasks(HeldHeaders, ListQueries)
  \/ DeleteTasksPath(HeldHeaders, {OidStr(3)})

InitList == InitStored(ListedTasks)

SpecList == InitList /\ [][NextList]_vars

---------------------------------------------------------------------------
(* Properties of the task list *)

\* the decimal digits of a natural number
RECURSIVE Decimal(_)
Decimal(n) ==
  IF n < 10 THEN <<HexDigit(n)>> ELSE Decimal(n \div 10) \o <<HexDigit(n % 10)>>

\* a page or limit value that is a positive decimal number
WellFormed(v) == v # <<>> /\ (\A i \in DOMAIN v : v[i] \in Digits) /\ DigitsValue(v) >= 1

\* the tasks of the caller that the filter of a query selects
Wanted(q) ==
  {t \in tasks :
     /\ t.userId \in Caller'
     /\ ("completed" \in DOMAIN q) => (t.completed <=> q.completed = "true")
     /\ ("category" \in DOMAIN q) => t.category = q.category
     /\ ("priority" \in DOMAIN q) => t.priority = 2 * DigitsValue(q.priority)}

RECURSIVE Concat(_)
Concat(pages) == IF pages = <<>> THEN <<>> ELSE Head(pages) \o Concat(Tail(pages))

\* the tasks of the response to the caller's query q with page and limit
\* replaced
PageOf(q, pg, l) ==
  LET u == CHOOSE u \in req'.user : TRUE
      asked == [k \in DOMAIN q \cup {"page", "limit"} |->
                  IF k = "page" THEN Decimal(pg)
                  ELSE IF k = "limit" THEN Decimal(l) ELSE q[k]]
  IN  listTasks(u, asked, TRUE).res.data.tasks

\* C14: a list request of a user with N tasks under the filter, with a page
\* number and a page size L of at least 1, is answered with totalItems = N and
\* totalPages = ceil(N/L); the pages 1..ceil(N/L) of the same query, one after
\* the other, are the list that a single page of size N gives, which holds
\* each of the N tasks once; the response holds the page asked for
C14_Step ==
  (/\ req'.route = "listTasks"
   /\ \A v \in Field(req'.query, "page") \cup Field(req'.query, "limit") : WellFormed(v)) =>
    LET q == req'.query
        L == IF "limit" \in DOMAIN q THEN DigitsValue(q.limit) ELSE DefaultLimit
        pg == IF "page" \in DOMAIN q THEN DigitsValue(q.page) ELSE DefaultPage
    IN  \A wanted \in {Wanted(q)} : \A N \in {Cardinality(wanted)} :
        \A P \in {k \in 0..N : (k - 1) * L < N /\ N <= k * L} :
        \A pages \in {[k \in 1..P |-> PageOf(q, k, L)]} :
        \A whole \in {IF N = 0 THEN <<>> ELSE PageOf(q, 1, N)} :
          /\ res'.status = 200
          /\ res'.data.pagination.totalItems = N
          /\ res'.data.pagination.totalPages = {P}
          /\ res'.data.pagination.currentPage = {pg}
          /\ res'.data.pagination.itemsPerPage = {L}
          /\ Concat(pages) = whole
          /\ Len(whole) = N
          /\ {whole[i] : i \in DOMAIN whole} = wanted
          /\ res'.data.tasks = IF pg <= P THEN pages[pg] ELSE <<>>
          /\ \A k \in 1..P : Len(pages[k]) = IF k < P THEN L ELSE N - (P - 1) * L

C14_Pagination == [][C14_Step]_vars

\* the second page of ten was asked by a user with twelve tasks, and holds two
C14_Witness ==
  /\ req.route = "listTasks"
  /\ DOMAIN req.query = {"page", "limit"}
  /\ req.query.page = <<"2">>
  /\ req.query.limit = <<"1", "0">>
  /\ res.status = 200
  /\ res.data.pagination.totalItems = MaxListed - 1
  /\ res.data.pagination.totalPages = {2}
  /\ Len(res.data.tasks) = MaxListed - 11

\* C15: a list request whose page or limit is not a number, or is zero or
\* negative, is served as page 1 of size 10: 200 with currentPage 1,
\* itemsPerPage 10 and the first ten tasks under the filter
C15_Step ==
  (/\ req'.route = "listTasks"
   /\ \E v \in Field(req'.query, "page") \cup Field(req'.query, "limit") : ~WellFormed(v)) =>
    /\ res'.status = 200
    /\ res'.data.pagination.currentPage = {DefaultPage}
    /\ res'.data.pagination.itemsPerPage = {DefaultLimit}
    /\ res'.data.tasks = PageOf(req'.query, DefaultPage, DefaultLimit)

C15_MalformedPaging == [][C15_Step]_vars

\* C21: a list request with sortBy = f and sortOrder = o is answered with the
\* tasks ordered by the field f, ascending for o = asc and descending for
\* o = desc, also for f = createdAt with o = asc (oldest first); without sort
\* parameters the tasks are ordered newest-created first
C21_Step ==
  (req'.route = "listTasks" /\ res'.status = 200) =>
    LET q == req'.query
        f == IF "sortBy" \in DOMAIN q THEN q.sortBy ELSE "createdAt"
        ascending == "sortOrder" \in DOMAIN q /\ q.sortOrder = "asc"
        found == res'.data.tasks
    IN  \A i, j \in DOMAIN found :
          i < j => IF ascending THEN found[i][f] <= found[j][f]
                                ELSE found[i][f] >= found[j][f]

C21_SortOrder == [][C21_Step]_vars

---------------------------------------------------------------------------
(* The fields of a task: what a create stores and what an update changes *)

\* req.body of POST /api/tasks: with and without a title, with a priority in
\* and out of 1..5
CreateBodies ==
  {[title |-> T_milk], [title |-> T_blank], [priority |-> Num(DefaultPriority)]}
  \cup {[title |-> T_milk, priority |-> Num(p)] :
          p \in {PriorityMin - 1, PriorityMax, PriorityMax + 1}}

\* req.body of PUT /api/tasks/:id: one field each, and none
UpdateBodies ==
  {EmptyRecord, [title |-> <<" ","T","e","a"," ">>], [title |-> T_blank],
   [priority |-> Num(PriorityMin)],
   [priority |-> Num(PriorityMin - 1)], [category |-> "work"], [completed |-> TRUE]}

\* the two users create tasks and update the first one
NextFields ==
  \/ PostTasks(HeldHeaders, CreateBodies)
  \/ PutTasksPath(HeldHeaders, {OidStr(3)}, UpdateBodies)

SpecFields == InitTasks /\ [][NextFields]_vars

\* C16: a create without a title, with a title that is empty after trimming,
\* or with a priority that is not in 1..5 is answered 400 and stores nothing;
\* every other create stores one new task of the caller, with the trimmed
\* title, the priority supplied or 3, category personal, completed false and
\* no completedAt
C16_Step ==
  (req'.route = "createTask") =>
    LET body == req'.body
        title == Field(body, "title")
        priority == Field(body, "priority")
    IN  IF \/ title = {}
           \/ \E v \in title : Trim(v) = <<>>
           \/ \E pr \in priority : pr < 2 * PriorityMin \/ pr > 2 * PriorityMax
          THEN res'.status = 400 /\ tasks' = tasks
          ELSE /\ res'.status = 201
               /\ \E t \in tasks' \ tasks :
                    /\ tasks' = tasks \cup {t}
                    /\ res'.data.task = t
                    /\ t.userId \in Caller'
                    /\ t.title = Trim(body.title)
                    /\ t.priority \in (IF priority = {} THEN {2 * DefaultPriority} ELSE priority)
                    /\ t.category = DefaultCategory
                    /\ ~t.completed
                    /\ t.completedAt = {}

C16_CreateValidates == [][C16_Step]_vars

\* the fields of a task that a request body can supply
BodyFields ==
  {"title", "description", "category", "priority", "dueDate", "completed", "tags"}

\* C17: an update that is answered 200 replaces the task it names by a task
\* with the same id, owner and createdAt, in which every field that the body
\* supplies has the supplied value (the title trimmed) and every other field
\* its value of before, completedAt too when completed is not supplied; no
\* other task changes
C17_Step ==
  (req'.route = "updateTask" /\ res'.status = 200) =>
    \E old \in tasks : \E new \in tasks' :
      /\ req'.path = <<OidStr(old._id)>>
      /\ tasks' \ {new} = tasks \ {old}
      /\ res'.data.task = new
      /\ new._id = old._id
      /\ new.userId = old.userId
      /\ new.createdAt = old.createdAt
      /\ new.updatedAt = now'
      /\ \A f \in BodyFields \ DOMAIN req'.body : new[f] = old[f]
      /\ \A f \in BodyFields \cap DOMAIN req'.body :
           new[f] = IF f = "title" THEN Trim(req'.body[f]) ELSE req'.body[f]
      /\ ("completed" \notin DOMAIN req'.body) => new.completedAt = old.completedAt

C17_UpdateFrame == [][C17_Step]_vars

\* the title of a task that was completed and given another priority was
\* replaced, while the store held another task
C17_Witness ==
  /\ req.route = "updateTask"
  /\ res.status = 200
  /\ DOMAIN req.body = {"title"}
  /\ res.data.task.completed
  /\ res.data.task.priority # 2 * DefaultPriority
  /\ res.data.task.title = <<"T","e","a">>
  /\ \E t \in tasks : t._id # res.data.task._id

---------------------------------------------------------------------------
(* Properties of the requests by id *)

\* the tasks of the caller that an id in a path names
Named(id) ==
  {t \in tasks : t.userId \in Caller' /\ ToLowerCase(id) = OidStr(t._id)}

\* C18: a get, update or delete by id is answered 400 when the id is not 24
\* hexadecimal characters, and 404 when it is but names no task of the caller
\* (no task, or one of another user), the store staying as it is; a delete
\* answered 200 returns the task it removes, and as no id is given twice, a
\* later get of that id finds nothing
C18_Step ==
  /\ (req'.route \in {"getTask", "updateTask", "deleteTask"}) =>
       LET id == req'.path[1]
       IN  /\ (Len(id) # ObjectIdLen \/ \E i \in DOMAIN id : id[i] \notin HexChars) =>
                (res'.status = 400 /\ tasks' = tasks)
           /\ (Len(id) = ObjectIdLen /\ (\A i \in DOMAIN id : id[i] \in HexChars)
               /\ Named(id) = {}) =>
                (res'.status = 404 /\ tasks' = tasks)
           /\ (req'.route = "deleteTask" /\ res'.status = 200) =>
                \E t \in Named(id) : res'.data.task = t /\ tasks' = tasks \ {t}
           /\ (req'.route = "getTask" /\ res'.status = 200) =>
                \E t \in Named(id) : res'.data.task = t /\ tasks' = tasks
  /\ \A t \in tasks' \ tasks :
       (\A o \in tasks : o._id # t._id) => t._id > nUsers + nTasks
  /\ \A t \in tasks' : t._id <= nUsers' + nTasks'

---------------------------------------------------------------------------
(* The statistics over a store with tasks due before, in and after the window *)

\* the first task is of the first user, the others of the second: due the day
\* before the start, on the day of the start and on each of the five days
\* after it, on three of these days twice, and one with no due date
StatTasks ==
  LET t0 == MaxTime - TokenTTL
      off == <<2, 0, 1, 2, 2, 3, 3, 4, 4, 5, 6>>
  IN  {StoredTask(k, IF k = 1 THEN 1 ELSE 2, t0 + (k \div 3),
                  {HalfDays(MaxTime - 2 + off[k])}, FALSE) : k \in DOMAIN off}
      \cup {StoredTask(12, 2, t0 + 4, {}, FALSE)}

\* the users ask for their statistics, complete two of the tasks and delete
\* four others, and a day passes
NextStats ==
  \/ GetTasksPath(HeldHeaders, {S_stats})
  \/ PutTasksPath(HeldHeaders, {OidStr(6), OidStr(12)}, {[completed |-> TRUE]})
  \/ DeleteTasksPath(HeldHeaders, {OidStr(3), OidStr(7), OidStr(8), OidStr(14)})
  \/ Tick(1)

InitStats == InitStored(StatTasks)

SpecStats == InitStats /\ [][NextStats]_vars

\* the tasks of the caller
Mine == {t \in tasks : t.userId \in Caller}

DueSoon ==
  {t \in Mine : ~t.completed /\ \E d \in t.dueDate : d >= 2 * now /\ d <= 2 * (now + 3)}

\* C20: upcomingTasks is the first five, by due date ascending, of the
\* caller's tasks that are not completed and due from now to three days from
\* now: it holds five of them, or all when they are fewer, each once, in
\* ascending order of due date, and none that is left out is due before one
\* that is in it
C20_Upcoming ==
  (req.route = "taskStats") =>
    LET up == res.data.upcomingTasks
    IN  /\ Len(up) = IF Cardinality(DueSoon) < 5 THEN Cardinality(DueSoon) ELSE 5
        /\ \A i \in DOMAIN up : up[i] \in DueSoon
        /\ \A i, j \in DOMAIN up : (i < j) => (up[i] # up[j] /\ up[i].dueDate # {})
        /\ \A i, j \in DOMAIN up : \A a \in up[i].dueDate, b \in up[j].dueDate :
             (i < j) => a <= b
        /\ \A t \in DueSoon \ {up[i] : i \in DOMAIN up} :
             \A i \in DOMAIN up : \A a \in up[i].dueDate, b \in t.dueDate : a <= b

\* five tasks are shown of six that are due in the window, while the caller
\* has a completed task due in the window, a task due before it, one due
\* after it and one with no due date
C20_Witness ==
  /\ req.route = "taskStats"
  /\ Len(res.data.upcomingTasks) = 5
  /\ Cardinality(DueSoon) = 6
  /\ \E t \in Mine : t.completed /\ \E d \in t.dueDate : d >= 2 * now /\ d <= 2 * (now + 3)
  /\ \E t \in Mine : \E d \in t.dueDate : d < 2 * now
  /\ \E t \in Mine : \E d \in t.dueDate : d > 2 * (now + 3)
  /\ \E t \in Mine : t.dueDate = {}

\* the requests to the task routes, and those to the paths of the application
\* outside the two routers
NextApp ==
  \/ NextGate
  \/ AppRequest({"GET", "POST"}, {<<>>, <<S_api, S_health>>, <<S_api, S_stats>>})

SpecApp == InitTasks /\ [][NextApp]_vars

\* C23: every response of the server, on every route and for every outcome,
\* the unknown paths and the health check included, is an envelope with an
\* error field that is a boolean and a message field, and error is true
\* exactly when the status is a failure status (4xx or 5xx)
C23_Envelope ==
  (res.status # 0) =>
    /\ "error" \in DOMAIN res
    /\ res.error \in {"true", "false"}
    /\ "message" \in DOMAIN res
    /\ (res.error = "true") <=> (res.status >= 400)

---------------------------------------------------------------------------
(* The due date of a task *)

\* the due dates the clients send: yesterday, the start of today, now and the
\* start of tomorrow, as seen on the day before the last
DueDates ==
  {HalfDays(MaxTime - 2), StartOfDay(MaxTime - 1), HalfDays(MaxTime - 1),
   StartOfDay(MaxTime)}

\* the two users create tasks with a due date and update the first one, its
\* due date or another field, and a day passes
NextDue ==
  \/ PostTasks(HeldHeaders, {[title |-> T_milk, dueDate |-> {d}] : d \in DueDates})
  \/ PutTasksPath(HeldHeaders, {OidStr(3)},
                  {[dueDate |-> {d}] : d \in DueDates}
                    \cup {[title |-> <<"T","e","a">>], [priority |-> Num(PriorityMax)]})
  \/ Tick(1)

SpecDue == InitTasks /\ [][NextDue]_vars

\* C22: a create or update that supplies a due date earlier than the current
\* date is answered 400 and changes nothing; one that supplies a due date on
\* the current date (today, from its start) or after it is accepted and stores
\* it; an update that supplies no due date succeeds on a task whose stored due
\* date has passed
C22_Step ==
  (req'.route \in {"createTask", "updateTask"}) =>
    LET today == 2 * now - 1
        supplied == UNION Field(req'.body, "dueDate")
        named == {t \in tasks : t.userId \in Caller' /\ req'.path = <<OidStr(t._id)>>}
    IN  /\ \A d \in supplied :
             d < today => (res'.status = 400 /\ tasks' = tasks)
        /\ \A d \in supplied :
             (d >= today /\ req'.route = "createTask") =>
               /\ res'.status = 201
               /\ \E t \in tasks' \ tasks : t.dueDate = {d}
        /\ \A d \in supplied : \A t \in named :
             (d >= today /\ req'.route = "updateTask") =>
               /\ res'.status = 200
               /\ \E new \in tasks' : new._id = t._id /\ new.dueDate = {d}
        /\ \A t \in named :
             (supplied = {} /\ \E d \in t.dueDate : d < 2 * now) =>
               /\ res'.status = 200
               /\ \E new \in tasks' : new._id = t._id /\ new.dueDate = t.dueDate

C22_DueDateRule == [][C22_Step]_vars

---------------------------------------------------------------------------
(* The browser application (public/js/app.js): login, task list, logout *)

\* apiRequest: the Authorization header it adds when authToken is set
clientHeader == UNION {Bearer(t) : t \in client.authToken}

\* handleLogin: the token and the user of the response are kept in the
\* globals and in localStorage, and the main screen is shown; a response that
\* is not ok is an error shown on the login screen
HandleLogin(bodies) ==
  \E b \in bodies : \E out \in {login(b)} :
    /\ client.pc = "idle"
    /\ client.screen = "login"
    /\ AuthServed(Request("POST", <<S_login>>, clientHeader, b, EmptyRecord),
                  "login", out, {})
    /\ client' = IF out.res.status = 200
                   THEN [client EXCEPT
                           !.authToken = {out.res.data.token},
                           !.currentUser = {out.res.data.user},
                           !.storage = [k \in {"taskflow_token", "taskflow_user"} |->
                                          IF k = "taskflow_token"
                                            THEN {out.res.data.token}
                                            ELSE {out.res.data.user}],
                           !.screen = "main"]
                   ELSE client
    /\ UNCHANGED pending

\* loadTasks: the tasks of the response replace the global tasks; a response
\* that is not ok leaves them
LoadTasks ==
  /\ client.pc = "idle"
  /\ client.screen = "main"
  /\ TaskServed(Request("GET", <<>>, clientHeader, EmptyRecord, EmptyRecord))
  /\ client' = IF res'.status = 200
                 THEN [client EXCEPT !.tasks = res'.data.tasks] ELSE client
  /\ UNCHANGED pending

\* a step of the browser application that sends nothing to the server
ClientStep(next) ==
  /\ client' = next
  /\ req' = NoRequest
  /\ res' = NoResponse
  /\ UNCHANGED <<users, tasks, nUsers, nTasks, now, held, loggedOut, pending>>

\* the click on the logout button calls handleLogout
ClickLogout ==
  /\ client.pc = "idle"
  /\ client.screen = "main"
  /\ ClientStep([client EXCEPT !.pc = "handleLogout"])

\* handleLogout after its await: the globals are reset, the two entries of
\* localStorage are removed and the login screen is shown
clearSession(c) ==
  [c EXCEPT !.authToken = {}, !.currentUser = {}, !.tasks = <<>>,
            !.storage = [k \in DOMAIN @ \ {"taskflow_token", "taskflow_user"} |-> @[k]],
            !.screen = "login", !.pc = "idle"]

\* handleLogout up to its await: with a token the logout request is sent,
\* without one the session is cleared at once
HandleLogout ==
  /\ client.pc = "handleLogout"
  /\ ClientStep(IF client.authToken # {} THEN [client EXCEPT !.pc = "awaitLogout"]
                                         ELSE clearSession(client))

\* the logout request is answered by the server: apiRequest returns
LogoutAnswered ==
  \E out \in {logout} :
    /\ client.pc = "awaitLogout"
    /\ AuthServed(Request("POST", <<S_logout>>, clientHeader, EmptyRecord, EmptyRecord),
                  "logout", out, client.authToken)
    /\ client' = clearSession(client)
    /\ UNCHANGED pending

\* the logout request fails (fetch rejects, or the response is not ok):
\* apiRequest throws, and the catch of handleLogout calls handleLogout again
LogoutFailed ==
  /\ client.pc = "awaitLogout"
  /\ ClientStep([client EXCEPT !.pc = "handleLogout"])

\* the browser application of one user, while another device of the same
\* user and one of another user create tasks
NextClient ==
  \/ HandleLogin({[email |-> E_b, password |-> P_secret],
                  [email |-> E_b, password |-> P_wrong]})
  \/ LoadTasks
  \/ ClickLogout
  \/ HandleLogout
  \/ LogoutAnswered
  \/ LogoutFailed
  \/ PostTasks(HeldHeaders, {[title |-> T_milk]})

\* a handler that was called runs on, and a request that was sent is
\* answered or fails: nothing makes it be answered
SpecClient ==
  /\ InitTasks
  /\ [][NextClient]_vars
  /\ WF_vars(HandleLogout)
  /\ WF_vars(LogoutAnswered \/ LogoutFailed)

\* C24: the logout of the client always completes: once handleLogout is
\* called, in whatever state, it ends with authToken, currentUser and the
\* cached tasks cleared, the two entries of localStorage removed and the login
\* screen shown, also when the logout request fails
C24_LogoutCompletes ==
  (client.pc = "handleLogout") ~>
    /\ client.pc = "idle"
    /\ client.authToken = {}
    /\ client.currentUser = {}
    /\ client.tasks = <<>>
    /\ DOMAIN client.storage \cap {"taskflow_token", "taskflow_user"} = {}
    /\ client.screen = "login"

---------------------------------------------------------------------------
(* Requests that are handled concurrently *)

MaxPending == 2

\* A handler awaits its store operations, and the handlers of other requests
\* run meanwhile.  A request that was received and whose handler has not
\* finished is in pending, with what its first read returned when the handler
\* makes two: first is "none" until then, and snap is empty.
Received(r) == [r |-> r, first |-> "none", snap |-> {}]

\* a request under /api/tasks is received
TaskBegin(methods, headers, paths, bodies) ==
  \E m \in methods, h \in headers, path \in paths, b \in bodies :
    /\ Cardinality(pending) < MaxPending
    /\ pending' = pending \cup {Received(Request(m, path, h, b, EmptyRecord))}
    /\ req' = NoRequest
    /\ res' = NoResponse
    /\ UNCHANGED <<users, tasks, nUsers, nTasks, now, held, loggedOut, client>>

\* the handler of a received request other than the list makes its one store
\* operation (findOneAndUpdate, save, findOneAndDelete) and answers
TaskEnd ==
  \E p \in pending :
    /\ Dispatch(p.r.method, p.r.path) # "listTasks"
    /\ TaskServed(p.r)
    /\ pending' = pending \ {p}
    /\ UNCHANGED client

\* Promise.all([Task.find(query)..., Task.countDocuments(query)]): the two
\* reads of the list are two operations of the store, served in either order;
\* the first one served
ListRead ==
  \E p \in pending : \E which \in {"find", "count"} :
    /\ Dispatch(p.r.method, p.r.path) = "listTasks"
    /\ p.first = "none"
    /\ pending' = (pending \ {p})
                     \cup {[p EXCEPT !.first = which, !.snap = {Serve(p.r, TRUE).res}]}
    /\ req' = NoRequest
    /\ res' = NoResponse
    /\ UNCHANGED <<users, tasks, nUsers, nTasks, now, held, loggedOut, client>>

\* the response of the list from the result of its two reads
listResponse(found, counted) ==
  IF found.status # 200 THEN found
  ELSE IF counted.status # 200 THEN counted
  ELSE [counted EXCEPT !.data.tasks = found.data.tasks]

\* the second read of the list is served and the handler answers
ListEnd ==
  \E p \in pending : \E out \in {Serve(p.r, TRUE)} : \E before \in p.snap :
    /\ res' = IF p.first = "find" THEN listResponse(before, out.res)
                                  ELSE listResponse(out.res, before)
    /\ req' = p.r @@ [base |-> "/api/tasks", user |-> out.user, route |-> out.route]
    /\ pending' = pending \ {p}
    /\ UNCHANGED <<users, tasks, nUsers, nTasks, now, held, loggedOut, client>>

\* two users: tasks are created and the first one is deleted while updates of
\* the first task (its title, its priority) and list requests are in flight
NextRace ==
  \/ PostTasks(HeldHeaders, {[title |-> T_milk]})
  \/ DeleteTasksPath(HeldHeaders, {OidStr(3)})
  \/ TaskBegin({"PUT"}, HeldHeaders, {<<OidStr(3)>>},
               {[title |-> <<"T","e","a">>], [priority |-> Num(PriorityMax)],
                [priority |-> Num(PriorityMin)]})
  \/ TaskBegin({"GET"}, HeldHeaders, {<<>>}, {EmptyRecord})
  \/ TaskEnd
  \/ ListRead
  \/ ListEnd

SpecRace == InitTasks /\ [][NextRace]_vars

\* C25: when updates of the same task are in flight together, each is applied
\* as one write of one document: the task after the write has every field the
\* request supplies at the supplied value and every other field as the write
\* found it (so the last write of a field wins and updates of disjoint fields
\* lose nothing), the response is that task, and the store changes in no
\* other way, so that no state holds a part of a request's fields
C25_Step ==
  (req'.route = "updateTask" /\ res'.status = 200) =>
    \E p \in pending \ pending' : \E old \in tasks :
      /\ p.r.path = <<OidStr(old._id)>>
      /\ p.r.body = req'.body
      /\ pending' = pending \ {p}
      /\ LET supplied == p.r.body
             new == [f \in DOMAIN old |->
                      IF f \in DOMAIN supplied
                        THEN IF f = "title" THEN Trim(supplied[f]) ELSE supplied[f]
                      ELSE IF f = "updatedAt" THEN now
                      ELSE old[f]]
         IN  /\ tasks' = (tasks \ {old}) \cup {new}
             /\ res'.data.task = new

C25_AtomicUpdates == [][C25_Step]_vars

\* the title of a task that a write in flight before had given another
\* priority is written, while an update of the priority is still in flight
C25_Witness ==
  /\ req.route = "updateTask"
  /\ res.status = 200
  /\ DOMAIN req.body = {"title"}
  /\ res.data.task.priority = 2 * PriorityMax
  /\ res.data.task.title = <<"T","e","a">>
  /\ \E p \in pending : p.r.method = "PUT" /\ DOMAIN p.r.body = {"priority"}
                          /\ p.r.body.priority = 2 * PriorityMin

\* C29: every list response is consistent in itself, also when other
\* requests create or delete tasks of the caller while it is handled: the
\* number of tasks returned for page p of size L is
\* min(L, max(0, totalItems - (p - 1) * L))
C29_Step ==
  (/\ req'.route = "listTasks"
   /\ res'.status = 200
   /\ \A v \in Field(req'.query, "page") \cup Field(req'.query, "limit") : WellFormed(v)) =>
    LET q == req'.query
        L == IF "limit" \in DOMAIN q THEN DigitsValue(q.limit) ELSE 10
        pg == IF "page" \in DOMAIN q THEN DigitsValue(q.page) ELSE 1
        left == res'.data.pagination.totalItems - (pg - 1) * L
    IN  Len(res'.data.tasks) =
          IF left < 0 THEN 0 ELSE IF left < L THEN left ELSE L

C29_ListConsistent == [][C29_Step]_vars

---------------------------------------------------------------------------
(* Registrations that are handled concurrently *)

\* router.post('/register') up to its first await, User.findOne({ email }):
\* a request that is turned away is answered, one whose email is not found
\* goes on to newUser.save() and is in pending until the store serves that
RegisterBegin(bodies) ==
  \E b \in bodies : \E out \in {register(b)} :
    \E r \in {Request("POST", <<S_register>>, {}, b, EmptyRecord)} :
      IF out.res.status = 201
        THEN /\ Cardinality(pending) < MaxPending
             /\ pending' = pending \cup {Received(r)}
             /\ req' = NoRequest
             /\ res' = NoResponse
             /\ UNCHANGED <<users, tasks, nUsers, nTasks, now, held, loggedOut, client>>
        ELSE /\ AuthServed(r, "register", out, {})
             /\ UNCHANGED <<pending, client>>

\* await newUser.save() of a registration in pending, and the response
RegisterSave ==
  \E p \in pending :
    \E out \in {saveNewUser(Trim(Trim(p.r.body.name)),
                             emailSetters(Trim(ToLowerCase(p.r.body.email))),
                             p.r.body.password)} :
      /\ AuthServed(p.r, "register", out, {})
      /\ pending' = pending \ {p}
      /\ UNCHANGED client

\* registrations for two addresses, one of them in two spellings, and the
\* users' profile requests
NextRegisterRace ==
  \/ RegisterBegin(ValidRegisterBodies)
  \/ RegisterSave
  \/ Me(HeldHeaders)
  \/ Tick(1)

SpecRegisterRace == InitAuth /\ [][NextRegisterRace]_vars

\* C26: under any interleaving of concurrent registrations for the same
\* email, the users collection never holds two users with the same lowercased
\* email, the registration that finds the email free is answered 201 and adds
\* the user, and every other one is answered 409 and adds nothing
C26_Step ==
  (req'.route = "register" /\ req'.body \in ValidRegisterBodies) =>
    /\ \A u, v \in users' : ToLowerCase(u.email) = ToLowerCase(v.email) => u = v
    /\ IF \E u \in users : ToLowerCase(u.email) = ToLowerCase(req'.body.email)
         THEN res'.status = 409 /\ users' = users
         ELSE /\ res'.status = 201
              /\ \E u \in users' \ users :
                   /\ users' = users \cup {u}
                   /\ u.email = ToLowerCase(req'.body.email)

C26_RegisterRace == [][C26_Step]_vars

---------------------------------------------------------------------------
(* Task requests that are turned away *)

\* two users and a client without a token: creates with and without a title
\* and with a priority out of range, lists with and without a page that the
\* store refuses, updates and deletes of the first task, of an id that is
\* none, and the bulk delete
NextErrors ==
  \/ PostTasks(TaskClients,
               {[title |-> T_milk], [title |-> T_blank],
                [title |-> T_milk, priority |-> Num(PriorityMax + 1)]})
  \/ GetTasks(TaskClients, {EmptyRecord, [page |-> <<"0">>]})
  \/ PutTasksPath(TaskClients, {OidStr(3), S_short},
                  {[completed |-> TRUE], [title |-> T_blank]})
  \/ DeleteTasksPath(TaskClients, {OidStr(3), S_short, S_completed})

SpecErrors == InitTasks /\ [][NextErrors]_vars

\* C27: a task request that is answered with a failure status (400, 401, 404
\* or 500) leaves the task store as it was: no task is created, modified or
\* deleted
C27_Step ==
  (req'.base = "/api/tasks" /\ res'.status \in {400, 401, 404, 500}) =>
    tasks' = tasks /\ nTasks' = nTasks

C27_ErrorsChangeNothing == [][C27_Step]_vars

\* a delete of a task that is in the store, by a user who does not own it,
\* was answered 404
C27_Witness ==
  /\ req.route = "deleteTask"
  /\ res.status = 404
  /\ \E t \in tasks : req.path = <<OidStr(t._id)>> /\ t.userId \notin Caller

---------------------------------------------------------------------------
(* The owner of a task *)

\* the two users create tasks, update and delete the first one and delete
\* the completed ones, with bodies that name an owner and an id
NextOwner ==
  \/ PostTasks(HeldHeaders,
               {[title |-> T_milk],
                [title |-> T_milk, userId |-> OidStr(1), _id |-> OidStr(9)],
                [title |-> T_milk, userId |-> OidStr(2)]})
  \/ PutTasksPath(HeldHeaders, {OidStr(3)},
                  {[completed |-> TRUE],
                   [userId |-> OidStr(1)], [userId |-> OidStr(2)],
                   [title |-> <<"T","e","a">>, userId |-> OidStr(2),
                    _id |-> OidStr(4)]})
  \/ DeleteTasksPath(HeldHeaders, {OidStr(3), S_completed})

SpecOwner == InitTasks /\ [][NextOwner]_vars

\* C28: the owner of a task never changes: a task that a request adds to the
\* store has as userId the id in the token of that request, a task that stays
\* in the store keeps its userId and its _id is of no other task, whatever
\* userId and _id the bodies of the requests hold
C28_Step ==
  /\ \A t \in tasks' :
       (\A o \in tasks : o._id # t._id) =>
         /\ req'.route = "createTask"
         /\ \E h \in req'.header : OidStr(t.userId) = h.cred.claims.id
  /\ \A o \in tasks : \A t \in tasks' : (o._id = t._id) => t.userId = o.userId
  /\ \A t, u \in tasks' : (t._id = u._id) => t = u

C28_OwnerNeverChanges == [][C28_Step]_vars

\* a user has updated a task with a body that names the other user as owner:
\* the task is still of the user who created it
C28_Witness ==
  /\ req.route = "updateTask"
  /\ res.status = 200
  /\ "userId" \in DOMAIN req.body
  /\ \E h \in req.header :
       /\ h.cred.claims.id # req.body.userId
       /\ OidStr(res.data.task.userId) = h.cred.claims.id
  /\ res.data.task \in tasks

\* ---------------------------------------------------------------------------
\* Validity of the stored tasks
\* ---------------------------------------------------------------------------

\* Creates and updates with titles that are and are not blank, and with
\* priorities that are whole, that are not (2.5, 1.5) and that are out of
\* range (5.5, 0.5, 6).
NextValid ==
  \/ PostTasks(HeldHeaders,
               {[title |-> T_milk], [title |-> T_blank],
                [title |-> T_milk, priority |-> Num(PriorityMax)],
                [title |-> T_milk, priority |-> Num(2) + 1],
                [title |-> T_milk, priority |-> Num(PriorityMax) + 1],
                [title |-> T_milk, priority |-> Num(PriorityMax + 1)]})
  \/ PutTasksPath(HeldHeaders, {OidStr(3)},
                  {[title |-> <<"T","e","a">>], [title |-> T_blank],
                   [priority |-> Num(PriorityMin)],
                   [priority |-> Num(PriorityMin) + 1],
                   [priority |-> Num(PriorityMin) - 1],
                   [completed |-> TRUE]})

SpecValid == InitTasks /\ [][NextValid]_vars

\* C30: after any sequence of create and update requests every stored task
\* has a title that is not empty after trimming and a priority that is a whole
\* number from 1 to 5
C30_StoredTasksValid ==
  \A t \in tasks :
    /\ Trim(t.title) # <<>>
    /\ \E n \in PriorityMin..PriorityMax : t.priority = 2 * n

====
